---- MODULE Spec2Model ----
(***************************************************************************)
(* gitopo renderer (src/src/renderer/main.js): the commit/branch model,    *)
(* the first-parent lineage walk, the sub-branch classifier, the layout    *)
(* pass of renderGraph, the pan/zoom handlers and the asynchronous loads   *)
(* (init, refresh, reloadCommits).                                         *)
(*                                                                         *)
(* JavaScript Sets and Maps iterate in insertion order, and the code       *)
(* depends on that order, so a Set is a duplicate-free sequence here.      *)
(* A commit is [hash, parents, timestamp, message]; allCommits is the      *)
(* array in row order; hashToCommit is a function on the indexed hashes.   *)
(***************************************************************************)
EXTENDS Integers, Sequences, FiniteSets, Bags, TLC

VARIABLES
    allCommits,      \* main.js:4   array of commits, row order
    allBranches,     \* main.js:5   array of [name, hash]
    allPullRequests, \* main.js:6   array of pull requests
    hashToCommit,    \* main.js:7   Map hash -> commit
    timeZoom,        \* main.js:9   time axis zoom factor, a rational <<n, d>>
    selected,        \* values of the selects branch1..branch3 (main.js:130)
    selectorOptions, \* branch names offered by the selects (main.js:149-154)
    uiPc,            \* "init": init is running; "loaded": init before
                     \* main.js:1109; "ready": init has installed the handlers
    loads,           \* the calls of init, refresh and reloadCommits that are
                     \* suspended at an await: a bag of [kind, pc]
    loadingVisible,  \* the loading overlay (main.js:12-22)
    layout,          \* what the last renderGraph computed: branchLineages
                     \* (main.js:377, sub-branches as placed), columnStartX
                     \* (main.js:517), positions (main.js:537) and counter
                     \* (subBranchIdCounter, main.js:424, at the end)
    panX,            \* main.js:865
    panY,            \* main.js:866, a rational <<n, d>>
    isDragging,      \* main.js:867
    dragStart,       \* main.js:868-869  <<dragStartX, dragStartY>>
    panStart,        \* main.js:870-871  <<panStartX, panStartY>>
    touchStart,      \* main.js:978-979  <<touchStartX, touchStartY>>
    touchPanStart,   \* main.js:980-981  <<touchPanStartX, touchPanStartY>>
    lastEvent,       \* the DOM event the last handler ran for
    events,          \* number of pointer, wheel and touch events so far
    walkPc,          \* getFirstParentLineage: "idle" | "loop" | "done"
    currentHash,     \* main.js:175 local of getFirstParentLineage
    lineage,         \* main.js:174 local of getFirstParentLineage
    walkSteps        \* number of first-parent links followed (main.js:181)

modelVars == <<allCommits, allBranches, allPullRequests, hashToCommit>>
renderVars == <<layout>>
panVars == <<panX, panY, isDragging, dragStart, panStart, touchStart, touchPanStart>>
eventVars == <<lastEvent, events>>
walkVars == <<walkPc, currentHash, lineage, walkSteps>>

selectVars == <<selected, selectorOptions>>
loadVars == <<loads, loadingVisible>>

vars == <<modelVars, timeZoom, selectVars, uiPc, loadVars, renderVars, panVars, eventVars,
          walkVars>>

----------------------------------------------------------------------------
(* Bounds of the model *)

\* number of commits in the commit sets of the lineage-walk specification
WalkCommits == 3

\* cap on the number of first-parent links one walk may follow in the model
\* (the code has no cap, main.js:177)
WalkStepCap == WalkCommits + 2

----------------------------------------------------------------------------
(* Values *)

HashNames == <<"c1", "c2", "c3", "c4", "c5", "c6", "c7">>

\* a parent hash that is not in the loaded commit set (history truncated)
Dangling == "x"

NoHash == ""

Range(s) == {s[i] : i \in DOMAIN s}

\* Set.prototype.add on an insertion-ordered Set
SetAdd(s, h) == IF h \in Range(s) THEN s ELSE Append(s, h)

\* main.js:96  { hash, parents, timestamp, message }
Commit(h, ps, t) == [hash |-> h, parents |-> ps, timestamp |-> t, message |-> "m"]

\* main.js:1014-1015  hashToCommit.clear(); allCommits.forEach(c => set(c.hash, c))
BuildIndex(commits) ==
    [h \in {commits[i].hash : i \in DOMAIN commits} |->
        LET last == CHOOSE i \in DOMAIN commits :
                        /\ commits[i].hash = h
                        /\ \A j \in DOMAIN commits : commits[j].hash = h => j <= i
        IN commits[last]]

----------------------------------------------------------------------------
(* Commit feed: fetchCommits, main.js:75-102 *)

\* A text is a sequence of characters (one-character strings, or longer
\* pieces of text that hold none of the three characters below).
Bar == "|"
Newline == "\n"
Space == " "

IsWhite(c) == c \in {Space, Newline}

RECURSIVE TrimLeft(_)
TrimLeft(s) == IF s # <<>> /\ IsWhite(Head(s)) THEN TrimLeft(Tail(s)) ELSE s

RECURSIVE TrimRight(_)
TrimRight(s) ==
    IF s # <<>> /\ IsWhite(s[Len(s)]) THEN TrimRight(SubSeq(s, 1, Len(s) - 1)) ELSE s

\* String.prototype.trim
trim(s) == TrimRight(TrimLeft(s))

RECURSIVE SplitFrom(_, _, _, _)
SplitFrom(s, sep, cur, acc) ==
    IF s = <<>> THEN Append(acc, cur)
    ELSE IF Head(s) = sep THEN SplitFrom(Tail(s), sep, <<>>, Append(acc, cur))
    ELSE SplitFrom(Tail(s), sep, Append(cur, Head(s)), acc)

\* String.prototype.split(sep): the pieces between the separators
split(s, sep) == SplitFrom(s, sep, <<>>, <<>>)

\* Array.prototype.join(sep)
RECURSIVE join(_, _)
join(parts, sep) ==
    IF parts = <<>> THEN <<>>
    ELSE IF Len(parts) = 1 THEN parts[1]
    ELSE parts[1] \o <<sep>> \o join(Tail(parts), sep)

\* the JavaScript string of a text
RECURSIVE Str(_)
Str(s) == IF s = <<>> THEN "" ELSE Head(s) \o Str(Tail(s))

Digits == <<"0", "1", "2", "3", "4", "5", "6", "7", "8", "9">>

IsDigit(c) == c \in Range(Digits)

DigitValue(c) == (CHOOSE i \in DOMAIN Digits : Digits[i] = c) - 1

\* the value of parseInt for a text without a leading digit; the numbers
\* parseInt yields here are not negative
NaN == -1

RECURSIVE ParseDigits(_, _)
ParseDigits(s, acc) ==
    IF s # <<>> /\ IsDigit(Head(s))
    THEN ParseDigits(Tail(s), acc * 10 + DigitValue(Head(s)))
    ELSE acc

\* main.js:93  parseInt(text, 10) of a text without sign characters: leading
\* white space is skipped, the longest prefix of digits is the value
parseInt(s) ==
    LET t == TrimLeft(s)
    IN IF t # <<>> /\ IsDigit(Head(t)) THEN ParseDigits(t, 0) ELSE NaN

\* main.js:95  parentsStr.trim() ? parentsStr.trim().split(' ') : []
parentsOf(parentsStr) ==
    IF trim(parentsStr) # <<>>
    THEN LET ps == split(trim(parentsStr), Space)
         IN [i \in DOMAIN ps |-> Str(ps[i])]
    ELSE <<>>

\* main.js:90  parts.length >= 4
IsCommitLine_ExactlyFour(parts) == Len(parts) = 4

IsCommitLine(parts) == Len(parts) >= 4

\* main.js:91-96  the commit of the fields of one line
commitOfParts(parts) ==
    [hash |-> Str(parts[1]),
     parents |-> parentsOf(parts[2]),
     timestamp |-> parseInt(parts[3]),
     message |-> Str(join(SubSeq(parts, 4, Len(parts)), Bar))]

\* main.js:88-98  the loop over the lines
RECURSIVE ParseLines(_, _)
ParseLines(lines, commits) ==
    IF lines = <<>> THEN commits
    ELSE LET parts == split(Head(lines), Bar)
         IN ParseLines(Tail(lines),
                       IF IsCommitLine(parts) THEN Append(commits, commitOfParts(parts))
                       ELSE commits)

\* main.js:100  (a, b) => b.timestamp - a.timestamp: positive when a belongs
\* after b; a difference with NaN is NaN and counts as no order
BelongsAfter(a, b) ==
    /\ a.timestamp # NaN
    /\ b.timestamp # NaN
    /\ b.timestamp - a.timestamp > 0

RECURSIVE InsertByTimestamp(_, _)
InsertByTimestamp(sorted, c) ==
    IF sorted = <<>> THEN <<c>>
    ELSE IF BelongsAfter(sorted[Len(sorted)], c)
         THEN Append(InsertByTimestamp(SubSeq(sorted, 1, Len(sorted) - 1), c),
                     sorted[Len(sorted)])
         ELSE Append(sorted, c)

RECURSIVE StableSortByTimestamp(_, _)
StableSortByTimestamp(commits, sorted) ==
    IF commits = <<>> THEN sorted
    ELSE StableSortByTimestamp(Tail(commits), InsertByTimestamp(sorted, Head(commits)))

\* the comparator is a consistent order unless a NaN timestamp sits between
\* two different numbers
ConsistentComparator(commits) ==
    \/ \A i \in DOMAIN commits : commits[i].timestamp # NaN
    \/ \A i, j \in DOMAIN commits :
          (commits[i].timestamp # NaN /\ commits[j].timestamp # NaN)
              => commits[i].timestamp = commits[j].timestamp

\* main.js:100  commits.sort(...): the arrays the sort may leave; stable
\* for a consistent comparator, any order of the elements otherwise
sortOutcomes(commits) ==
    IF ConsistentComparator(commits)
    THEN {StableSortByTimestamp(commits, <<>>)}
    ELSE {[i \in DOMAIN commits |-> commits[p[i]]] : p \in Permutations(DOMAIN commits)}

\* fetchCommits keeping the loaded commits when the command fails
fetchCommits_KeepsLoaded(result) ==
    IF ~result.success THEN {allCommits}
    ELSE sortOutcomes(ParseLines(split(trim(result.output), Newline), <<>>))

\* main.js:75-102  the arrays fetchCommits may return for the result of
\* window.gitopo.git.exec
fetchCommits(result) ==
    IF ~result.success THEN {<<>>}
    ELSE sortOutcomes(ParseLines(split(trim(result.output), Newline), <<>>))

\* main.js:117-123  the loop over the lines of the branch list
RECURSIVE ParseBranchLines(_, _)
ParseBranchLines(lines, branches) ==
    IF lines = <<>> THEN branches
    ELSE LET parts == split(trim(Head(lines)), Space)
         IN ParseBranchLines(Tail(lines),
                IF Len(parts) >= 2
                THEN Append(branches, [name |-> Str(parts[1]), hash |-> Str(parts[2])])
                ELSE branches)

\* main.js:104-127
fetchBranches(result) ==
    IF ~result.success THEN <<>>
    ELSE ParseBranchLines(split(trim(result.output), Newline), <<>>)

\* an output of gh that JSON.parse rejects
BadJson == "not json"

\* main.js:42-64  result.output is the array JSON.parse returns, or BadJson
fetchPullRequests(result) ==
    IF ~result.success THEN <<>>
    ELSE IF result.output = BadJson THEN <<>>
    ELSE [i \in DOMAIN result.output |->
             [number |-> result.output[i].number,
              title |-> result.output[i].title,
              branch |-> result.output[i].headRefName,
              headCommit |-> result.output[i].headRefOid]]

----------------------------------------------------------------------------
(* Lineage Tracer: getFirstParentLineage, main.js:170-188 *)

\* main.js:171  allBranches.find(b => b.name === branchName)
FindBranch(branches, name) ==
    LET hits == {i \in DOMAIN branches : branches[i].name = name}
    IN IF hits = {} THEN 0 ELSE CHOOSE i \in hits : \A j \in hits : i <= j

\* a walk that never follows a parent link
HasFirstParent_Never(idx, h) == FALSE

\* main.js:179-180  commit && commit.parents.length > 0
HasFirstParent(idx, h) ==
    /\ h \in DOMAIN idx
    /\ Len(idx[h].parents) > 0

\* the whole while loop of main.js:177-185, from currentHash = cur
RECURSIVE WalkFrom(_, _, _)
WalkFrom(idx, cur, lin) ==
    IF cur = NoHash THEN lin
    ELSE LET lin2 == SetAdd(lin, cur)
         IN IF HasFirstParent(idx, cur)
            THEN WalkFrom(idx, idx[cur].parents[1], lin2)
            ELSE lin2

getFirstParentLineage(branches, idx, branchName) ==
    LET b == FindBranch(branches, branchName)
    IN IF b = 0 THEN <<>> ELSE WalkFrom(idx, branches[b].hash, <<>>)

\* --- the same function, one loop iteration per step ---

\* main.js:171-175
WalkStart ==
    /\ walkPc = "idle"
    /\ LET b == FindBranch(allBranches, "main")
       IN IF b = 0
          THEN /\ walkPc' = "done"
               /\ currentHash' = NoHash
          ELSE /\ walkPc' = "loop"
               /\ currentHash' = allBranches[b].hash
    /\ lineage' = <<>>
    /\ walkSteps' = 0
    /\ UNCHANGED <<modelVars, timeZoom, selectVars, uiPc, loadVars, renderVars, panVars, eventVars>>

\* main.js:177-181  one iteration that follows the first parent
WalkFollow ==
    /\ walkPc = "loop"
    /\ currentHash # NoHash
    /\ HasFirstParent(hashToCommit, currentHash)
    /\ walkSteps < WalkStepCap
    /\ lineage' = SetAdd(lineage, currentHash)
    /\ currentHash' = hashToCommit[currentHash].parents[1]
    /\ walkSteps' = walkSteps + 1
    /\ UNCHANGED <<walkPc, modelVars, timeZoom, selectVars, uiPc, loadVars, renderVars, panVars, eventVars>>

\* main.js:177-184  the last iteration (break), or the loop test failing
WalkBreak ==
    /\ walkPc = "loop"
    /\ \/ currentHash = NoHash
       \/ ~HasFirstParent(hashToCommit, currentHash)
    /\ lineage' = IF currentHash = NoHash THEN lineage
                  ELSE SetAdd(lineage, currentHash)
    /\ walkPc' = "done"
    /\ UNCHANGED <<currentHash, walkSteps, modelVars, timeZoom, selectVars, uiPc, loadVars, renderVars, panVars, eventVars>>

----------------------------------------------------------------------------
(* Sub-branch Classifier: findSubBranches, main.js:196-326 *)

NoId == -1

\* main.js:201-209  hashToChildren.get(h): the commits of allCommits that
\* list h as a parent, in array order
RECURSIVE ChildrenOf(_, _, _)
ChildrenOf(commits, h, i) ==
    IF i > Len(commits) THEN <<>>
    ELSE LET here == SelectSeq(commits[i].parents, LAMBDA p : p = h)
             mine == [k \in 1..Len(here) |-> commits[i].hash]
         IN mine \o ChildrenOf(commits, h, i + 1)

\* a traversal that follows parent links only
Unvisited_ParentsOnly(commits, idx, lin, excl, acc, cur) ==
    LET Open(h) == h \notin lin /\ h \notin excl /\ h \notin Range(acc)
    IN SelectSeq(idx[cur].parents, Open)

\* main.js:228-241  the parents, then the children, of cur that are pushed
\* on the stack; acc already contains cur
Unvisited(commits, idx, lin, excl, acc, cur) ==
    LET Open(h) == h \notin lin /\ h \notin excl /\ h \notin Range(acc)
    IN SelectSeq(idx[cur].parents, Open) \o SelectSeq(ChildrenOf(commits, cur, 1), Open)

\* main.js:212-245  collectConnectedCommits: the stack loop, acc is the
\* Set `commits`, toVisit the stack (top is the last element)
RECURSIVE CollectLoop(_, _, _, _, _, _, _)
CollectLoop(commits, idx, lin, excl, processed, acc, toVisit) ==
    IF toVisit = <<>> THEN acc
    ELSE
      LET cur  == toVisit[Len(toVisit)]
          rest == SubSeq(toVisit, 1, Len(toVisit) - 1)
      IN IF \/ cur \in Range(acc)
            \/ cur \in lin
            \/ cur \in excl
            \/ cur \in processed
            \/ cur \notin DOMAIN idx
         THEN CollectLoop(commits, idx, lin, excl, processed, acc, rest)
         ELSE CollectLoop(commits, idx, lin, excl, processed, Append(acc, cur),
                          rest \o Unvisited(commits, idx, lin, excl, Append(acc, cur), cur))

collectConnectedCommits(commits, idx, lin, excl, processed, startHash) ==
    CollectLoop(commits, idx, lin, excl, processed, <<>>, <<startHash>>)

\* isValidSubBranch that looks at the first parent of a member only
isValidSubBranch_FirstParentOnly(idx, lin, commitSet) ==
    \A k \in DOMAIN commitSet :
        (commitSet[k] \in DOMAIN idx /\ Len(idx[commitSet[k]].parents) > 0) =>
            \/ idx[commitSet[k]].parents[1] \in lin
            \/ idx[commitSet[k]].parents[1] \in Range(commitSet)

\* main.js:248-259
isValidSubBranch(idx, lin, commitSet) ==
    \A k \in DOMAIN commitSet :
        commitSet[k] \in DOMAIN idx =>
            \A p \in Range(idx[commitSet[k]].parents) :
                p \in lin \/ p \in Range(commitSet)

\* findMergeCommitOnLineage returning the last such lineage hash
findMergeCommitOnLineage_Last(idx, commitSet, targetLineage) ==
    LET Hit(k) == /\ targetLineage[k] \in DOMAIN idx
                  /\ Len(idx[targetLineage[k]].parents) >= 2
                  /\ \E i \in 2..Len(idx[targetLineage[k]].parents) :
                        idx[targetLineage[k]].parents[i] \in Range(commitSet)
        hits == {k \in DOMAIN targetLineage : Hit(k)}
    IN IF hits = {} THEN NoHash
       ELSE targetLineage[CHOOSE k \in hits : \A j \in hits : k >= j]

\* main.js:262-273  first lineage hash (Set order) that has >= 2 parents and
\* a non-first parent in the component; NoHash is null
findMergeCommitOnLineage(idx, commitSet, targetLineage) ==
    LET Hit(k) == /\ targetLineage[k] \in DOMAIN idx
                  /\ Len(idx[targetLineage[k]].parents) >= 2
                  /\ \E i \in 2..Len(idx[targetLineage[k]].parents) :
                        idx[targetLineage[k]].parents[i] \in Range(commitSet)
        hits == {k \in DOMAIN targetLineage : Hit(k)}
    IN IF hits = {} THEN NoHash
       ELSE targetLineage[CHOOSE k \in hits : \A j \in hits : k <= j]

\* findBranchPoint returning the forking member instead of its parent
findBranchPoint_Member(idx, lin, commitSet) ==
    LET OnLin(k) == /\ commitSet[k] \in DOMAIN idx
                    /\ \E p \in Range(idx[commitSet[k]].parents) : p \in lin
        hits == {k \in DOMAIN commitSet : OnLin(k)}
    IN IF hits = {} THEN NoHash
       ELSE commitSet[CHOOSE k \in hits : \A j \in hits : k <= j]

\* main.js:276-287  first member (Set order), first of its parents on lineage
findBranchPoint(idx, lin, commitSet) ==
    LET OnLin(k) == /\ commitSet[k] \in DOMAIN idx
                    /\ \E p \in Range(idx[commitSet[k]].parents) : p \in lin
        hits == {k \in DOMAIN commitSet : OnLin(k)}
    IN IF hits = {} THEN NoHash
       ELSE LET k  == CHOOSE k \in hits : \A j \in hits : k <= j
                ps == idx[commitSet[k]].parents
                i  == CHOOSE i \in DOMAIN ps :
                         /\ ps[i] \in lin
                         /\ \A j \in DOMAIN ps : ps[j] \in lin => i <= j
            IN ps[i]

\* main.js:302-309  merged into a lineage object other than this one
\* (otherLineage === lineage is object identity: position li in the array)
mergedIntoOtherKeyBranch(idx, commitSet, lins, li) ==
    \E j \in DOMAIN lins :
        /\ j # li
        /\ findMergeCommitOnLineage(idx, commitSet, lins[j]) # NoHash

\* an ownership test that keeps only what is merged into this lineage
OwnedByLineage_MergedOnly(mergeOnThisLineage, mergedIntoOther) ==
    mergeOnThisLineage # NoHash

\* main.js:314  the ownership test
OwnedByLineage(mergeOnThisLineage, mergedIntoOther) ==
    mergeOnThisLineage # NoHash \/ ~mergedIntoOther

\* main.js:297-321  what one component adds to the result: the sub-branch
\* record if it is valid and owned by this lineage, else nothing
Classify(idx, lins, li, sb) ==
    IF Len(sb) > 0 /\ isValidSubBranch(idx, Range(lins[li]), sb)
    THEN IF OwnedByLineage(findMergeCommitOnLineage(idx, sb, lins[li]),
                           mergedIntoOtherKeyBranch(idx, sb, lins, li))
         THEN <<[mergeCommit |-> findMergeCommitOnLineage(idx, sb, lins[li]),
                 branchPoint |-> findBranchPoint(idx, Range(lins[li]), sb),
                 commits |-> sb]>>
         ELSE <<>>
    ELSE <<>>

\* main.js:315  processedCommits after the sub-branches in add were pushed
Processed(processed, add) ==
    processed \cup UNION {Range(add[k].commits) : k \in DOMAIN add}

RECURSIVE FindLoop(_, _, _, _, _, _, _, _)

\* main.js:295-322  the body of the loop for a commit that is not skipped
FindStep(commits, idx, lins, li, excl, i, processed, found, add) ==
    FindLoop(commits, idx, lins, li, excl, i + 1,
             Processed(processed, add), found \o add)

\* main.js:290-323  the loop over allCommits, from array position i
FindLoop(commits, idx, lins, li, excl, i, processed, found) ==
    IF i > Len(commits) THEN found
    ELSE IF \/ commits[i].hash \in Range(lins[li])
            \/ commits[i].hash \in excl
            \/ commits[i].hash \in processed
         THEN FindLoop(commits, idx, lins, li, excl, i + 1, processed, found)
         ELSE FindStep(commits, idx, lins, li, excl, i, processed, found,
                       Classify(idx, lins, li,
                                collectConnectedCommits(commits, idx, Range(lins[li]),
                                                        excl, processed, commits[i].hash)))

\* findSubBranches(lineage, excludeCommits, allKeyBranchLineages) with
\* lineage = lins[li]
findSubBranches(commits, idx, lins, li, excl) ==
    FindLoop(commits, idx, lins, li, excl, 1, {}, <<>>)

----------------------------------------------------------------------------
(* Layout pass of renderGraph, main.js:352-553 *)

nodeSpacingY == 30
mainColumnWidth == 150
subBranchOffset == 30
paddingTop == 50
paddingLeft == 50

\* the value of an unselected <select> (the '----' option, main.js:144)
NoBranch == ""

\* main.js:328-337
getSelectedBranches(sel) == SelectSeq(sel, LAMBDA v : v # NoBranch)

\* Array.prototype.findIndex(c => c.hash === h): 0-based, -1 when absent
findIndex(commits, h) ==
    LET hits == {i \in DOMAIN commits : commits[i].hash = h}
    IN IF hits = {} THEN -1
       ELSE (CHOOSE i \in hits : \A j \in hits : i <= j) - 1

\* Map.prototype.set
MapSet(f, k, v) == [x \in DOMAIN f \cup {k} |-> IF x = k THEN v ELSE f[x]]

RECURSIVE MapSetAll(_, _, _, _)
MapSetAll(f, keys, k, v) ==
    IF k > Len(keys) THEN f
    ELSE MapSetAll(MapSet(f, keys[k], v), keys, k + 1, v)

\* main.js:362-365
AllLineages(branches, idx, names) ==
    [i \in DOMAIN names |->
        [name |-> names[i],
         lineage |-> getFirstParentLineage(branches, idx, names[i])]]

\* main.js:379-384  commits of the lineages whose name differs
otherLineageCommits(allLin, name) ==
    UNION {Range(allLin[j].lineage) : j \in {k \in DOMAIN allLin : allLin[k].name # name}}

\* main.js:377-388
BranchLineages(commits, idx, allLin) ==
    LET lins == [i \in DOMAIN allLin |-> allLin[i].lineage]
    IN [i \in DOMAIN allLin |->
          [name |-> allLin[i].name,
           lineage |-> allLin[i].lineage,
           subBranches |-> findSubBranches(commits, idx, lins, i,
                               otherLineageCommits(allLin, allLin[i].name))]]

\* a default placement in the first column instead of the Other column
DefaultColumns_FirstColumn(commits, n) ==
    [h \in {commits[i].hash : i \in DOMAIN commits} |->
        [mainCol |-> 0, subOffset |-> 0, isSubBranch |-> FALSE, subBranchId |-> NoId]]

\* main.js:403-409
DefaultColumns(commits, n) ==
    [h \in {commits[i].hash : i \in DOMAIN commits} |->
        [mainCol |-> n, subOffset |-> 0, isSubBranch |-> FALSE, subBranchId |-> NoId]]

\* main.js:412-420  lineages in selection order, a later one overwrites
RECURSIVE AssignMainline(_, _, _)
AssignMainline(col, bls, b) ==
    IF b > Len(bls) THEN col
    ELSE AssignMainline(
             MapSetAll(col, bls[b].lineage, 1,
                       [mainCol |-> b - 1, subOffset |-> 0,
                        isSubBranch |-> FALSE, subBranchId |-> NoId]),
             bls, b + 1)

\* main.js:438-441  commit.timestamp > oldestTimestamp, from -Infinity
\* (no comparison with NaN is true)
StartBeats(t, best) == t > best

\* main.js:454-457  commit.timestamp < newestTimestamp, from Infinity
EndBeats(t, best) == t < best

\* main.js:438-445 (forStart) and 454-461  scan of the members in Set order:
\* the row of the last member whose timestamp beat every earlier one
RECURSIVE ScanMembers(_, _, _, _, _, _, _, _)
ScanMembers(commits, idx, members, k, has, best, row, forStart) ==
    IF k > Len(members) THEN row
    ELSE IF /\ members[k] \in DOMAIN idx
            /\ idx[members[k]].timestamp # NaN
            /\ \/ ~has
               \/ IF forStart THEN StartBeats(idx[members[k]].timestamp, best)
                              ELSE EndBeats(idx[members[k]].timestamp, best)
         THEN ScanMembers(commits, idx, members, k + 1, TRUE,
                          idx[members[k]].timestamp,
                          findIndex(commits, members[k]), forStart)
         ELSE ScanMembers(commits, idx, members, k + 1, has, best, row, forStart)

\* main.js:432-446
StartRow(commits, idx, sb) ==
    LET r == IF sb.branchPoint # NoHash
             THEN findIndex(commits, sb.branchPoint) ELSE -1
    IN IF r < 0
       THEN ScanMembers(commits, idx, sb.commits, 1, FALSE, 0, r, TRUE)
       ELSE r

\* main.js:449-462
EndRow(commits, idx, sb) ==
    IF sb.mergeCommit # NoHash
    THEN findIndex(commits, sb.mergeCommit)
    ELSE ScanMembers(commits, idx, sb.commits, 1, FALSE, 0, -1, FALSE)

\* main.js:430-465
subBranchesWithSpan(commits, idx, sbs) ==
    [k \in DOMAIN sbs |->
        [mergeCommit |-> sbs[k].mergeCommit,
         branchPoint |-> sbs[k].branchPoint,
         commits |-> sbs[k].commits,
         startRow |-> StartRow(commits, idx, sbs[k]),
         endRow |-> EndRow(commits, idx, sbs[k])]]

\* main.js:468-470  Array.prototype.sort is stable; comparator
\* b.startRow - a.startRow puts the higher start row first
RECURSIVE InsertSorted(_, _, _)
InsertSorted(sorted, e, k) ==
    IF k > Len(sorted) THEN Append(sorted, e)
    ELSE IF sorted[k].startRow < e.startRow
         THEN SubSeq(sorted, 1, k - 1) \o <<e>> \o SubSeq(sorted, k, Len(sorted))
         ELSE InsertSorted(sorted, e, k + 1)

RECURSIVE SortLoop(_, _, _)
SortLoop(s, k, sorted) ==
    IF k > Len(s) THEN sorted
    ELSE SortLoop(s, k + 1, InsertSorted(sorted, s[k], 1))

\* the sub-branches left in the order the classifier returned them
sortedSubBranches_Unsorted(s) == s

sortedSubBranches(s) == SortLoop(s, 1, <<>>)

\* main.js:477-478
spanStart(sb) == IF sb.startRow < sb.endRow THEN sb.startRow ELSE sb.endRow
spanEnd(sb) == IF sb.startRow > sb.endRow THEN sb.startRow ELSE sb.endRow

\* main.js:486 and 497  for (let row = spanStart; row < spanEnd; row++)
SpanRows(sb) == {row \in spanStart(sb)..spanEnd(sb) : row < spanEnd(sb)}

\* main.js:481-494  usage is rowOffsetUsage as a set of <<row, offset>>
RECURSIVE FindOffset(_, _, _)
FindOffset(usage, rows, offset) ==
    IF \E row \in rows : <<row, offset>> \in usage
    THEN FindOffset(usage, rows, offset + 1)
    ELSE offset

\* main.js:504-512 and 497-502  the state after one sub-branch was placed
\* at offset; st = [col, counter, usage, placed]
Place(sb, rows, offset, branchIndex, st) ==
    [col |-> MapSetAll(st.col, sb.commits, 1,
                       [mainCol |-> branchIndex, subOffset |-> offset,
                        isSubBranch |-> TRUE, subBranchId |-> st.counter]),
     counter |-> st.counter + 1,
     usage |-> st.usage \cup {<<row, offset>> : row \in rows},
     placed |-> Append(st.placed,
                       [mergeCommit |-> sb.mergeCommit,
                        branchPoint |-> sb.branchPoint,
                        commits |-> sb.commits,
                        startRow |-> sb.startRow,
                        endRow |-> sb.endRow,
                        offset |-> offset,
                        id |-> st.counter])]

\* main.js:472-513  the forEach over the sorted sub-branches of one lineage
RECURSIVE PlaceLoop(_, _, _, _)
PlaceLoop(sorted, k, branchIndex, st) ==
    IF k > Len(sorted) THEN st
    ELSE PlaceLoop(sorted, k + 1, branchIndex,
                   Place(sorted[k], SpanRows(sorted[k]),
                         FindOffset(st.usage, SpanRows(sorted[k]), 1),
                         branchIndex, st))

RECURSIVE AssignSubBranches(_, _, _, _, _)

\* main.js:425-514  what one lineage adds; st is the result of its PlaceLoop
AssignStep(commits, idx, bls, b, acc, st) ==
    AssignSubBranches(commits, idx, bls, b + 1,
        [col |-> st.col, counter |-> st.counter,
         out |-> Append(acc.out, [name |-> bls[b].name,
                                  lineage |-> bls[b].lineage,
                                  subBranches |-> st.placed])])

\* main.js:425-514  the forEach over the lineages; rowOffsetUsage is fresh
\* for every lineage, subBranchIdCounter runs on; acc = [col, counter, out]
AssignSubBranches(commits, idx, bls, b, acc) ==
    IF b > Len(bls) THEN acc
    ELSE AssignStep(commits, idx, bls, b, acc,
             PlaceLoop(sortedSubBranches(
                           subBranchesWithSpan(commits, idx, bls[b].subBranches)),
                       1, b - 1,
                       [col |-> acc.col, counter |-> acc.counter,
                        usage |-> {}, placed |-> <<>>]))

\* main.js:525-531
maxOffset(commits, col, i) ==
    LET offs == {col[commits[k].hash].subOffset :
                    k \in {j \in DOMAIN commits : col[commits[j].hash].mainCol = i}}
    IN IF offs = {} THEN 0
       ELSE LET m == CHOOSE m \in offs : \A o \in offs : o <= m
            IN IF m > 0 THEN m ELSE 0

\* main.js:517-534  columnStartX for the columns 0..n, as a sequence
\* (column i at position i + 1)
RECURSIVE ColumnStartX(_, _, _, _, _, _)
ColumnStartX(commits, col, n, i, currentX, acc) ==
    IF i > n THEN acc
    ELSE ColumnStartX(commits, col, n, i + 1,
             IF i < n
             THEN currentX + mainColumnWidth + maxOffset(commits, col, i) * subBranchOffset
             ELSE currentX,
             Append(acc, currentX))

\* positions with sub-branch offsets one main column wide
Positions_WideOffsets(commits, col, startX) ==
    [h \in {commits[i].hash : i \in DOMAIN commits} |->
        LET globalIndex == (CHOOSE i \in DOMAIN commits :
                               /\ commits[i].hash = h
                               /\ \A j \in DOMAIN commits :
                                     commits[j].hash = h => j <= i) - 1
            c == col[h]
        IN [col |-> c.mainCol,
            subOffset |-> c.subOffset,
            row |-> globalIndex,
            x |-> startX[c.mainCol + 1] + c.subOffset * mainColumnWidth,
            y |-> paddingTop + globalIndex * nodeSpacingY,
            isSubBranch |-> c.isSubBranch,
            subBranchId |-> c.subBranchId]]

\* main.js:537-553
Positions(commits, col, startX) ==
    [h \in {commits[i].hash : i \in DOMAIN commits} |->
        LET globalIndex == (CHOOSE i \in DOMAIN commits :
                               /\ commits[i].hash = h
                               /\ \A j \in DOMAIN commits :
                                     commits[j].hash = h => j <= i) - 1
            c == col[h]
        IN [col |-> c.mainCol,
            subOffset |-> c.subOffset,
            row |-> globalIndex,
            x |-> startX[c.mainCol + 1] + c.subOffset * subBranchOffset,
            y |-> paddingTop + globalIndex * nodeSpacingY,
            isSubBranch |-> c.isSubBranch,
            subBranchId |-> c.subBranchId]]

\* a counter that is not reset between passes
FirstSubBranchId_Stale == layout.counter

\* main.js:424  let subBranchIdCounter = 0
FirstSubBranchId == 0

\* main.js:537-553  the result of the pass
LayoutResult(commits, placed, startX) ==
    [branchLineages |-> placed.out,
     columnStartX |-> startX,
     positions |-> Positions(commits, placed.col, startX),
     counter |-> placed.counter]

\* main.js:516-534
LayoutColumns(commits, n, placed) ==
    LayoutResult(commits, placed,
                 ColumnStartX(commits, placed.col, n, 0, paddingLeft, <<>>))

\* a pass whose mainline assignment lets the first lineage that contains a
\* commit keep it
LayoutAssign_FirstLineageWins(commits, idx, bls, counter0) ==
    LET col == AssignMainline(DefaultColumns(commits, Len(bls)), bls, 1)
        Places(h) == {b \in DOMAIN bls : h \in Range(bls[b].lineage)}
        First(h) == CHOOSE b \in Places(h) : \A c \in Places(h) : b <= c
    IN LayoutColumns(commits, Len(bls),
           AssignSubBranches(commits, idx, bls, 1,
               [col |-> [h \in DOMAIN col |->
                            IF Places(h) = {} THEN col[h]
                            ELSE [col[h] EXCEPT !.mainCol = First(h) - 1]],
                counter |-> counter0, out |-> <<>>]))

\* main.js:399-514
LayoutAssign(commits, idx, bls, counter0) ==
    LayoutColumns(commits, Len(bls),
        AssignSubBranches(commits, idx, bls, 1,
            [col |-> AssignMainline(DefaultColumns(commits, Len(bls)), bls, 1),
             counter |-> counter0, out |-> <<>>]))

\* main.js:359-553  the layout pass: lineages, sub-branches, columns, offsets,
\* coordinates
LayoutPass(commits, branches, idx, sel, counter0) ==
    LayoutAssign(commits, idx,
        BranchLineages(commits, idx,
            AllLineages(branches, idx, getSelectedBranches(sel))),
        counter0)

----------------------------------------------------------------------------
(* Rationals <<n, d>> with d > 0, in lowest terms (JavaScript numbers that *)
(* the zoom handler multiplies and divides)                                *)

RECURSIVE Gcd(_, _)
Gcd(a, b) == IF b = 0 THEN a ELSE Gcd(b, a % b)

Abs(a) == IF a < 0 THEN -a ELSE a

Rat(n, d) ==
    LET sn == IF d < 0 THEN -n ELSE n
        sd == Abs(d)
        g  == Gcd(Abs(sn), sd)
    IN <<sn \div g, sd \div g>>

RInt(i) == <<i, 1>>
\* products are taken after the common factors are divided out, so that
\* the intermediate integers stay small
RAdd(a, b) ==
    LET g == Gcd(a[2], b[2])
    IN Rat(a[1] * (b[2] \div g) + b[1] * (a[2] \div g), (a[2] \div g) * b[2])
RNeg(a) == <<-a[1], a[2]>>
RSub(a, b) == RAdd(a, RNeg(b))
RMul(a, b) ==
    LET g1 == Gcd(Abs(a[1]), b[2])
        g2 == Gcd(Abs(b[1]), a[2])
    IN <<(a[1] \div g1) * (b[1] \div g2), (a[2] \div g2) * (b[2] \div g1)>>
RInv(a) == IF a[1] < 0 THEN <<-a[2], -a[1]>> ELSE <<a[2], a[1]>>
RDiv(a, b) == RMul(a, RInv(b))
RLess(a, b) ==
    LET g == Gcd(a[2], b[2])
    IN a[1] * (b[2] \div g) < b[1] * (a[2] \div g)
RMin(a, b) == IF RLess(b, a) THEN b ELSE a
RMax(a, b) == IF RLess(a, b) THEN b ELSE a

----------------------------------------------------------------------------
(* States before anything has run *)

NoLayout == [branchLineages |-> <<>>, columnStartX |-> <<>>,
             positions |-> <<>>, counter |-> 0]

\* the parts of the last layout pass
branchLineages == layout.branchLineages
positions == layout.positions
columnStartX == layout.columnStartX
subBranchIdCounter == layout.counter

NoEvent == [type |-> "none"]

\* calls of refresh and reloadCommits that may be in flight at once
MaxLoads == 2

\* nothing has been rendered: main.js:865-871 and 978-981 run in renderGraph
NoRenderYet ==
    /\ timeZoom = RInt(1)
    /\ selected = <<NoBranch, NoBranch, NoBranch>>
    /\ selectorOptions = {}
    /\ layout = NoLayout
    /\ panX = 0
    /\ panY = RInt(0)
    /\ isDragging = FALSE
    /\ dragStart = <<0, 0>>
    /\ panStart = <<0, RInt(0)>>
    /\ touchStart = <<0, 0>>
    /\ touchPanStart = <<0, RInt(0)>>
    /\ lastEvent = NoEvent
    /\ events = 0

\* init has finished and no refresh or reload is running
NoLoads ==
    /\ loads = EmptyBag
    /\ loadingVisible = FALSE

WalkIdle ==
    /\ walkPc = "idle"
    /\ currentHash = NoHash
    /\ lineage = <<>>
    /\ walkSteps = 0

----------------------------------------------------------------------------
(* renderGraph, main.js:339-1006, as a step of a handler *)

\* renderGraph() on the model (commits, branches, idx) and the selection sel
\* that the handler leaves behind: the layout pass, then fresh pan and drag
\* state (main.js:865-871, 978-981); timeZoom is a global and is kept
RenderGraphOn(commits, branches, idx, sel) ==
    /\ layout' = LayoutPass(commits, branches, idx, sel, FirstSubBranchId)
    /\ panX' = 0
    /\ panY' = RInt(0)
    /\ isDragging' = FALSE
    /\ dragStart' = <<0, 0>>
    /\ panStart' = <<0, RInt(0)>>
    /\ touchStart' = <<0, 0>>
    /\ touchPanStart' = <<0, RInt(0)>>

\* main.js:131  config.keyBranches || []  (no keyBranches configured)
keyBranches == <<>>

\* main.js:129-168  the value each select ends with: the configured key
\* branch if it exists, main/master for the first select, else '----'
populateBranchSelectors(branches) ==
    LET Has(n) == \E k \in DOMAIN branches : branches[k].name = n
        defaults == {k \in DOMAIN branches :
                        branches[k].name = "main" \/ branches[k].name = "master"}
    IN [index \in 1..3 |->
          IF index <= Len(keyBranches) /\ keyBranches[index] # NoBranch
          THEN IF Has(keyBranches[index]) THEN keyBranches[index] ELSE NoBranch
          ELSE IF index = 1 /\ defaults # {}
               THEN branches[CHOOSE k \in defaults : \A j \in defaults : k <= j].name
               ELSE NoBranch]

\* main.js:149-154  the options appended to every select
BranchOptions(branches) == {branches[k].name : k \in DOMAIN branches}

\* main.js:1109-1139  the end of init on the model (commits, branches, idx):
\* selectors, first render, overlay hidden, handlers installed
FinishInit(commits, branches, idx) ==
    /\ uiPc' = "ready"
    /\ selected' = populateBranchSelectors(branches)
    /\ selectorOptions' = BranchOptions(branches)
    /\ RenderGraphOn(commits, branches, idx, selected')
    /\ loadingVisible' = FALSE

\* main.js:1109-1139  the end of init, from the point where the model is built
InitRender ==
    /\ uiPc = "loaded"
    /\ FinishInit(allCommits, allBranches, hashToCommit)
    /\ UNCHANGED <<modelVars, timeZoom, loads, eventVars, walkVars>>

\* main.js:166  change listener of select number i: renderGraph()
SelectChange(i, v) ==
    /\ uiPc = "ready"
    /\ v \in selectorOptions \cup {NoBranch}
    /\ selected[i] # v
    /\ selected' = [selected EXCEPT ![i] = v]
    /\ RenderGraphOn(allCommits, allBranches, hashToCommit, selected')
    /\ UNCHANGED <<modelVars, timeZoom, selectorOptions, uiPc, loadVars, eventVars, walkVars>>

\* main.js:1116-1118  resize listener: renderGraph()
Resize ==
    /\ uiPc = "ready"
    /\ RenderGraphOn(allCommits, allBranches, hashToCommit, selected)
    /\ UNCHANGED <<modelVars, timeZoom, selectVars, uiPc, loadVars, eventVars, walkVars>>

----------------------------------------------------------------------------
(* The asynchronous loads: init, refresh, reloadCommits (main.js:1008-1142). *)
(* A call runs up to its next await in one step; the step that resumes it   *)
(* takes the result the collaborator delivers.  A suspended call holds      *)
(* nothing but its position, so the calls in flight are a bag of positions. *)

Failure == [success |-> FALSE]

Success(out) == [success |-> TRUE, output |-> out]

At(kind, pc) == SetToBag({[kind |-> kind, pc |-> pc]})

\* a call of kind is suspended at the await pc
Awaiting(kind, pc) == BagIn([kind |-> kind, pc |-> pc], loads)

\* that call runs on to the await next
Resume(kind, pc, next) == loads' = (loads (-) At(kind, pc)) (+) At(kind, next)

\* that call runs to its end
Finish(kind, pc) == loads' = loads (-) At(kind, pc)

\* the event a step leaves when it received the result of a fetch
Fetched(what, result) == [type |-> "fetch", what |-> what, result |-> result]

\* the event of a load step that received no fetch result
Called == [type |-> "load"]

\* main.js:1076-1081  init resumes with the version: title, showLoading
InitVersion ==
    /\ Awaiting("init", "getVersion")
    /\ Resume("init", "getVersion", "repoName")
    /\ loadingVisible' = TRUE
    /\ lastEvent' = Called
    /\ UNCHANGED <<modelVars, timeZoom, selectVars, uiPc, renderVars, panVars, events, walkVars>>

\* main.js:1082-1084  init resumes with the repository name
InitRepoName ==
    /\ Awaiting("init", "repoName")
    /\ Resume("init", "repoName", "config")
    /\ loadingVisible' = TRUE
    /\ lastEvent' = Called
    /\ UNCHANGED <<modelVars, timeZoom, selectVars, uiPc, renderVars, panVars, events, walkVars>>

\* main.js:1085-1087  init resumes with the configuration (no keyBranches)
InitConfig ==
    /\ Awaiting("init", "config")
    /\ Resume("init", "config", "commits")
    /\ loadingVisible' = TRUE
    /\ lastEvent' = Called
    /\ UNCHANGED <<modelVars, timeZoom, selectVars, uiPc, renderVars, panVars, events, walkVars>>

\* main.js:1131, 1134-1139, 1024-1032  click on the refresh button or
\* Ctrl/Cmd+R: refresh() up to the await of 'fetch --all'
RefreshStart ==
    /\ uiPc = "ready"
    /\ BagCardinality(loads) < MaxLoads
    /\ loads' = loads (+) At("refresh", "fetchAll")
    /\ loadingVisible' = TRUE
    /\ lastEvent' = Called
    /\ UNCHANGED <<modelVars, timeZoom, selectVars, uiPc, renderVars, panVars, events, walkVars>>

\* main.js:1032-1035  refresh resumes after 'fetch --all' (result unused)
RefreshFetched ==
    /\ Awaiting("refresh", "fetchAll")
    /\ Resume("refresh", "fetchAll", "commits")
    /\ loadingVisible' = TRUE
    /\ lastEvent' = Called
    /\ UNCHANGED <<modelVars, timeZoom, selectVars, uiPc, renderVars, panVars, events, walkVars>>

\* main.js:1088-1090, 1035-1037  allCommits = await fetchCommits(limit), in
\* init or refresh
LoadCommits(kind, result) ==
    /\ kind \in {"init", "refresh"}
    /\ Awaiting(kind, "commits")
    /\ allCommits' \in fetchCommits(result)
    /\ Resume(kind, "commits", "branches")
    /\ loadingVisible' = TRUE
    /\ lastEvent' = Fetched("commits", result)
    /\ UNCHANGED <<allBranches, allPullRequests, hashToCommit, timeZoom, selectVars, uiPc,
                   renderVars, panVars, events, walkVars>>

\* main.js:1091-1093, 1038-1040  allBranches = await fetchBranches(), in
\* init or refresh
LoadBranches(kind, result) ==
    /\ kind \in {"init", "refresh"}
    /\ Awaiting(kind, "branches")
    /\ allBranches' = fetchBranches(result)
    /\ Resume(kind, "branches", "prs")
    /\ loadingVisible' = TRUE
    /\ lastEvent' = Fetched("branches", result)
    /\ UNCHANGED <<allCommits, allPullRequests, hashToCommit, timeZoom, selectVars, uiPc,
                   renderVars, panVars, events, walkVars>>

\* main.js:1094-1139  init resumes with the pull requests and runs to its end
InitPullRequests(result) ==
    /\ Awaiting("init", "prs")
    /\ allPullRequests' = fetchPullRequests(result)
    /\ hashToCommit' = BuildIndex(allCommits)
    /\ FinishInit(allCommits, allBranches, hashToCommit')
    /\ Finish("init", "prs")
    /\ lastEvent' = Fetched("prs", result)
    /\ UNCHANGED <<allCommits, allBranches, timeZoom, events, walkVars>>

\* main.js:1048-1060  the selections refresh leaves: the old value where it
\* is non-empty and still a branch, else what populateBranchSelectors set
restoredSelections(currentSelections, branches) ==
    [index \in 1..3 |->
        IF /\ currentSelections[index] # NoBranch
           /\ \E k \in DOMAIN branches : branches[k].name = currentSelections[index]
        THEN currentSelections[index]
        ELSE populateBranchSelectors(branches)[index]]

\* main.js:1041-1069  refresh resumes with the pull requests and runs to its end
RefreshPullRequests(result) ==
    /\ Awaiting("refresh", "prs")
    /\ allPullRequests' = fetchPullRequests(result)
    /\ hashToCommit' = BuildIndex(allCommits)
    /\ selected' = restoredSelections(selected, allBranches)
    /\ selectorOptions' = BranchOptions(allBranches)
    /\ RenderGraphOn(allCommits, allBranches, hashToCommit', selected')
    /\ loadingVisible' = FALSE
    /\ Finish("refresh", "prs")
    /\ lastEvent' = Fetched("prs", result)
    /\ UNCHANGED <<allCommits, allBranches, timeZoom, uiPc, events, walkVars>>

\* main.js:1122-1128, 1008-1011  change of the commit limit: reloadCommits()
\* up to the await of fetchCommits
ReloadStart ==
    /\ uiPc = "ready"
    /\ BagCardinality(loads) < MaxLoads
    /\ loads' = loads (+) At("reload", "commits")
    /\ loadingVisible' = TRUE
    /\ lastEvent' = Called
    /\ UNCHANGED <<modelVars, timeZoom, selectVars, uiPc, renderVars, panVars, events, walkVars>>

\* main.js:1011-1022  reloadCommits resumes with the commits and runs to its end
ReloadCommits(result) ==
    /\ Awaiting("reload", "commits")
    /\ allCommits' \in fetchCommits(result)
    /\ hashToCommit' = BuildIndex(allCommits')
    /\ RenderGraphOn(allCommits', allBranches, hashToCommit', selected)
    /\ loadingVisible' = FALSE
    /\ Finish("reload", "commits")
    /\ lastEvent' = Fetched("commits", result)
    /\ UNCHANGED <<allBranches, allPullRequests, timeZoom, selectVars, uiPc, events, walkVars>>

----------------------------------------------------------------------------
(* Specification of the layout: a loaded repository, then selector changes *)
(* and resizes                                                             *)

\* number of commits of the loaded repository
MaxCommits == 3

\* number of wheel, mouse and touch events of one session
MaxEvents == 3

\* the select elements whose value the user changes
ChangedSelectors == {1, 2}

\* parent lists over the candidates cands: a root, a normal commit or a
\* merge of two distinct parents
ParentLists(cands) ==
    {<<>>} \cup {<<a>> : a \in cands}
           \cup {q \in {<<a, b>> : a \in cands, b \in cands} : q[1] # q[2]}

\* git log lists a commit before its parents: the parents of the commit in
\* row i of n are in later rows, or outside the loaded set (the history is
\* cut off below one commit)
OlderHashes(i, n) == {HashNames[j] : j \in (i + 1)..n} \cup {Dangling}

\* position of a tip in the feed; the dangling hash comes last
TipRank(h, n) ==
    IF h = Dangling THEN n + 1 ELSE CHOOSE j \in 1..n : HashNames[j] = h

BranchNames == {"main", "dev"}

\* a loaded repository: init (main.js:1087-1101) has fetched commits and
\* branches and built the index.  The two branches are interchangeable
\* (every selection order is reached by SelectChange), so main's tip is the
\* one that is not older
LayoutInit ==
    /\ \E ps \in [1..MaxCommits -> ParentLists(OlderHashes(0, MaxCommits))] :
          /\ \A i \in 1..MaxCommits : Range(ps[i]) \subseteq OlderHashes(i, MaxCommits)
          /\ \A i, j \in 1..MaxCommits :
                Dangling \in Range(ps[i]) /\ Dangling \in Range(ps[j]) => i = j
          /\ allCommits = [i \in 1..MaxCommits |->
                              Commit(HashNames[i], ps[i], MaxCommits - i)]
    /\ \E t1, t2 \in OlderHashes(0, MaxCommits) :
          /\ TipRank(t1, MaxCommits) <= TipRank(t2, MaxCommits)
          /\ allBranches = <<[name |-> "main", hash |-> t1], [name |-> "dev", hash |-> t2]>>
    /\ allPullRequests = <<>>
    /\ hashToCommit = BuildIndex(allCommits)
    /\ NoRenderYet
    /\ uiPc = "loaded"
    /\ loads = EmptyBag
    /\ loadingVisible = TRUE
    /\ WalkIdle

LayoutNext ==
    \/ InitRender
    \/ \E i \in ChangedSelectors : \E v \in BranchNames \cup {NoBranch} : SelectChange(i, v)
    \/ Resize

SpecLayout == LayoutInit /\ [][LayoutNext]_vars

\* commit sets of the walk: every commit has no parent, a loaded first
\* parent (any loaded commit, so first-parent cycles occur) or a dangling one
WalkParentChoices ==
    {<<>>} \cup {<<h>> : h \in {HashNames[i] : i \in 1..WalkCommits} \cup {Dangling}}

WalkInit ==
    /\ \E ps \in [1..WalkCommits -> WalkParentChoices] :
          allCommits = [i \in 1..WalkCommits |->
                            Commit(HashNames[i], ps[i], WalkCommits - i)]
    /\ \E tip \in {HashNames[i] : i \in 1..WalkCommits} \cup {Dangling} :
          allBranches = <<[name |-> "main", hash |-> tip]>>
    /\ allPullRequests = <<>>
    /\ hashToCommit = BuildIndex(allCommits)
    /\ NoRenderYet
    /\ uiPc = "ready"
    /\ NoLoads
    /\ WalkIdle

WalkNext == WalkStart \/ WalkFollow \/ WalkBreak

SpecWalk == WalkInit /\ [][WalkNext]_vars

\* C1: the lineage walk follows at most |commits| first-parent links, for
\* every loaded commit set (first-parent cycles included) and every tip.
C1_WalkBounded == walkSteps <= Len(allCommits)

----------------------------------------------------------------------------
(* Interaction State: the handlers renderGraph installs, main.js:916-1005 *)

\* main.js:922  event.deltaY > 0 ? 0.9 : 1.1
zoomFactor(deltaY) == IF deltaY > 0 THEN Rat(9, 10) ELSE Rat(11, 10)

\* main.js:923-924
minZoom == Rat(1, 10)
maxZoom == RInt(5)

\* the product without Math.max and Math.min
newTimeZoom_Unclamped(zoom, deltaY) == RMul(zoom, zoomFactor(deltaY))

\* main.js:926  Math.max(minZoom, Math.min(maxZoom, timeZoom * zoomFactor))
newTimeZoom(zoom, deltaY) ==
    RMax(minZoom, RMin(maxZoom, RMul(zoom, zoomFactor(deltaY))))

\* the ratio panY is scaled with when the new zoom factor was not clamped
zoomRatio_Unclamped(zoom, deltaY) == zoomFactor(deltaY)

\* main.js:934  (newTimeZoom / timeZoom)
zoomRatio(zoom, deltaY) == RDiv(newTimeZoom(zoom, deltaY), zoom)

\* main.js:933-934  graphY = mouseY - panY; panY = mouseY - graphY * ratio
zoomedPanY(py, zoom, mouseY, deltaY) ==
    RSub(RInt(mouseY), RMul(RSub(RInt(mouseY), py), zoomRatio(zoom, deltaY)))

\* a zoom gesture that also scrolls sideways, as the plain wheel does
WheelZoom_AlsoPansX(deltaY, mouseY) ==
    /\ uiPc = "ready"
    /\ events < MaxEvents
    /\ panX' = panX - deltaY
    /\ panY' = zoomedPanY(panY, timeZoom, mouseY, deltaY)
    /\ timeZoom' = newTimeZoom(timeZoom, deltaY)
    /\ lastEvent' = [type |-> "zoom", deltaY |-> deltaY, mouseY |-> mouseY]
    /\ events' = events + 1
    /\ UNCHANGED <<modelVars, selectVars, uiPc, loadVars, renderVars, isDragging,
                   dragStart, panStart, touchStart, touchPanStart, walkVars>>

\* main.js:920-938  wheel with Ctrl/Cmd: zoom of the time axis, anchored at
\* mouseY = event.clientY - rect.top
WheelZoom(deltaY, mouseY) ==
    /\ uiPc = "ready"
    /\ events < MaxEvents
    /\ panY' = zoomedPanY(panY, timeZoom, mouseY, deltaY)
    /\ timeZoom' = newTimeZoom(timeZoom, deltaY)
    /\ lastEvent' = [type |-> "zoom", deltaY |-> deltaY, mouseY |-> mouseY]
    /\ events' = events + 1
    /\ UNCHANGED <<modelVars, selectVars, uiPc, loadVars, renderVars, panX, isDragging,
                   dragStart, panStart, touchStart, touchPanStart, walkVars>>

\* main.js:939-944  wheel without modifier: pan
WheelPan(deltaX, deltaY) ==
    /\ uiPc = "ready"
    /\ events < MaxEvents
    /\ panX' = panX - deltaX
    /\ panY' = RSub(panY, RInt(deltaY))
    /\ lastEvent' = [type |-> "wheel", deltaX |-> deltaX, deltaY |-> deltaY]
    /\ events' = events + 1
    /\ UNCHANGED <<modelVars, timeZoom, selectVars, uiPc, loadVars, renderVars, isDragging,
                   dragStart, panStart, touchStart, touchPanStart, walkVars>>

\* main.js:948-957
MouseDown(button, pt) ==
    /\ uiPc = "ready"
    /\ events < MaxEvents
    /\ IF button = 0
       THEN /\ isDragging' = TRUE
            /\ dragStart' = pt
            /\ panStart' = <<panX, panY>>
       ELSE UNCHANGED <<isDragging, dragStart, panStart>>
    /\ lastEvent' = [type |-> "mousedown", button |-> button, pt |-> pt]
    /\ events' = events + 1
    /\ UNCHANGED <<modelVars, timeZoom, selectVars, uiPc, loadVars, renderVars, panX, panY,
                   touchStart, touchPanStart, walkVars>>

\* a mousemove that adds the displacement to the current pan
MouseMove_Accumulating(pt) ==
    /\ uiPc = "ready"
    /\ events < MaxEvents
    /\ IF isDragging
       THEN /\ panX' = panX + (pt[1] - dragStart[1])
            /\ panY' = RAdd(panY, RInt(pt[2] - dragStart[2]))
       ELSE UNCHANGED <<panX, panY>>
    /\ lastEvent' = [type |-> "mousemove", pt |-> pt]
    /\ events' = events + 1
    /\ UNCHANGED <<modelVars, timeZoom, selectVars, uiPc, loadVars, renderVars, isDragging,
                   dragStart, panStart, touchStart, touchPanStart, walkVars>>

\* main.js:959-965
MouseMove(pt) ==
    /\ uiPc = "ready"
    /\ events < MaxEvents
    /\ IF isDragging
       THEN /\ panX' = panStart[1] + (pt[1] - dragStart[1])
            /\ panY' = RAdd(panStart[2], RInt(pt[2] - dragStart[2]))
       ELSE UNCHANGED <<panX, panY>>
    /\ lastEvent' = [type |-> "mousemove", pt |-> pt]
    /\ events' = events + 1
    /\ UNCHANGED <<modelVars, timeZoom, selectVars, uiPc, loadVars, renderVars, isDragging,
                   dragStart, panStart, touchStart, touchPanStart, walkVars>>

\* main.js:967-971
MouseUp(button) ==
    /\ uiPc = "ready"
    /\ events < MaxEvents
    /\ isDragging' = IF button = 0 THEN FALSE ELSE isDragging
    /\ lastEvent' = [type |-> "mouseup", button |-> button]
    /\ events' = events + 1
    /\ UNCHANGED <<modelVars, timeZoom, selectVars, uiPc, loadVars, renderVars, panX, panY,
                   dragStart, panStart, touchStart, touchPanStart, walkVars>>

\* main.js:973-975
MouseLeave ==
    /\ uiPc = "ready"
    /\ events < MaxEvents
    /\ isDragging' = FALSE
    /\ lastEvent' = [type |-> "mouseleave"]
    /\ events' = events + 1
    /\ UNCHANGED <<modelVars, timeZoom, selectVars, uiPc, loadVars, renderVars, panX, panY,
                   dragStart, panStart, touchStart, touchPanStart, walkVars>>

\* main.js:983-991  touches is event.touches.length, pt the first touch
TouchStart(touches, pt) ==
    /\ uiPc = "ready"
    /\ events < MaxEvents
    /\ IF touches = 1
       THEN /\ touchStart' = pt
            /\ touchPanStart' = <<panX, panY>>
       ELSE UNCHANGED <<touchStart, touchPanStart>>
    /\ lastEvent' = [type |-> "touchstart", touches |-> touches, pt |-> pt]
    /\ events' = events + 1
    /\ UNCHANGED <<modelVars, timeZoom, selectVars, uiPc, loadVars, renderVars, panX, panY,
                   isDragging, dragStart, panStart, walkVars>>

\* main.js:993-1001
TouchMove(touches, pt) ==
    /\ uiPc = "ready"
    /\ events < MaxEvents
    /\ IF touches = 1
       THEN /\ panX' = touchPanStart[1] + (pt[1] - touchStart[1])
            /\ panY' = RAdd(touchPanStart[2], RInt(pt[2] - touchStart[2]))
       ELSE UNCHANGED <<panX, panY>>
    /\ lastEvent' = [type |-> "touchmove", touches |-> touches, pt |-> pt]
    /\ events' = events + 1
    /\ UNCHANGED <<modelVars, timeZoom, selectVars, uiPc, loadVars, renderVars, isDragging,
                   dragStart, panStart, touchStart, touchPanStart, walkVars>>

\* main.js:1116-1118  a resize between gestures: renderGraph() installs fresh
\* pan and drag state; timeZoom is kept
Rerender ==
    /\ uiPc = "ready"
    /\ lastEvent.type # "render"
    /\ RenderGraphOn(allCommits, allBranches, hashToCommit, selected)
    /\ lastEvent' = [type |-> "render"]
    /\ UNCHANGED <<modelVars, timeZoom, selectVars, uiPc, loadVars, events, walkVars>>

\* pointer positions, wheel deltas and cursor rows of the events
Points == {<<0, 0>>, <<20, 30>>}
WheelDeltas == {-30, 30}
MouseYs == {0, 60, 100}

\* zoom factors a session has reached before the modelled events: the
\* initial 1 and the two clamps (17 zoom-in or 22 zoom-out steps from 1)
ZoomStarts == {RInt(1), minZoom, maxZoom}

\* the graph is rendered (init has finished, main.js:1112), the time zoom is
\* what earlier gestures left
ZoomInit ==
    /\ allCommits = <<Commit(HashNames[1], <<>>, 0)>>
    /\ allBranches = <<[name |-> "main", hash |-> HashNames[1]]>>
    /\ allPullRequests = <<>>
    /\ hashToCommit = BuildIndex(allCommits)
    /\ timeZoom \in ZoomStarts
    /\ selected = populateBranchSelectors(allBranches)
    /\ selectorOptions = BranchOptions(allBranches)
    /\ uiPc = "ready"
    /\ NoLoads
    /\ layout = LayoutPass(allCommits, allBranches, hashToCommit, selected, FirstSubBranchId)
    /\ panX = 0
    /\ panY = RInt(0)
    /\ isDragging = FALSE
    /\ dragStart = <<0, 0>>
    /\ panStart = <<0, RInt(0)>>
    /\ touchStart = <<0, 0>>
    /\ touchPanStart = <<0, RInt(0)>>
    /\ lastEvent = [type |-> "render"]
    /\ events = 0
    /\ WalkIdle

ZoomNext ==
    \/ \E d \in WheelDeltas : \E y \in MouseYs : WheelZoom(d, y)
    \/ \E dx \in WheelDeltas : \E dy \in WheelDeltas : WheelPan(dx, dy)
    \/ \E b \in {0, 2} : \E pt \in Points : MouseDown(b, pt)
    \/ \E pt \in Points : MouseMove(pt)
    \/ \E b \in {0, 2} : MouseUp(b)
    \/ MouseLeave
    \/ \E n \in {1, 2} : \E pt \in Points : TouchStart(n, pt)
    \/ \E n \in {1, 2} : \E pt \in Points : TouchMove(n, pt)
    \/ Rerender

SpecZoom == ZoomInit /\ [][ZoomNext]_vars

----------------------------------------------------------------------------
(* Properties of the classifier and the layout pass (SpecLayout) *)

LoadedHashes == {allCommits[i].hash : i \in DOMAIN allCommits}

\* the sub-branches of the last pass as <<lineage number, position>>
PlacedSubBranches ==
    {<<b, k>> : b \in DOMAIN branchLineages, k \in 1..MaxCommits} \cap
    {q \in (DOMAIN branchLineages) \X (1..MaxCommits) :
        q[2] \in DOMAIN branchLineages[q[1]].subBranches}

SubBranchAt(q) == branchLineages[q[1]].subBranches[q[2]]

\* C2: every parent hash of every member of a sub-branch returned for a
\* lineage is a member of that sub-branch or of that lineage (and every
\* member is a loaded commit).
C2_SubBranchParentsInside ==
    \A q \in PlacedSubBranches :
        /\ Range(SubBranchAt(q).commits) \subseteq LoadedHashes
        /\ \A i \in DOMAIN allCommits :
              allCommits[i].hash \in Range(SubBranchAt(q).commits) =>
                  Range(allCommits[i].parents) \subseteq
                      Range(SubBranchAt(q).commits) \cup Range(branchLineages[q[1]].lineage)

\* a pass that returned a sub-branch with a parent on its lineage and that
\* left out a component because a parent of it is outside the loaded set
C2_Witness ==
    /\ \E q \in PlacedSubBranches :
          \E i \in DOMAIN allCommits :
              /\ allCommits[i].hash \in Range(SubBranchAt(q).commits)
              /\ Range(allCommits[i].parents) \cap Range(branchLineages[q[1]].lineage) # {}
    /\ \E i \in DOMAIN allCommits :
          /\ Dangling \in Range(allCommits[i].parents)
          /\ \A b \in DOMAIN branchLineages :
                allCommits[i].hash \notin Range(branchLineages[b].lineage)
          /\ \A q \in PlacedSubBranches :
                allCommits[i].hash \notin Range(SubBranchAt(q).commits)

\* rows a sub-branch occupies: min(startRow, endRow) .. max(startRow, endRow)
OccupiedRows(sb) == spanStart(sb)..spanEnd(sb)

\* C3: no two distinct sub-branches of one lineage have the same offset at
\* a row that both occupy.
C3_NoOffsetCollision ==
    \A q1, q2 \in PlacedSubBranches :
        (q1[1] = q2[1] /\ q1[2] # q2[2] /\ SubBranchAt(q1).offset = SubBranchAt(q2).offset)
            => OccupiedRows(SubBranchAt(q1)) \cap OccupiedRows(SubBranchAt(q2)) = {}

----------------------------------------------------------------------------
(* Properties of the interaction handlers (SpecZoom) *)

\* screen Y of the graph coordinate baseY: panY + baseY * timeZoom
ScreenY(py, zoom, baseY) == RAdd(py, RMul(baseY, zoom))

\* the graph coordinate displayed at screen row y
BaseAt(py, zoom, y) == RDiv(RSub(RInt(y), py), zoom)

\* C5: after a zoom gesture at cursor row mouseY the graph coordinate that
\* was displayed at mouseY is displayed at mouseY again, clamped or not.
C5_ZoomAnchored ==
    [][lastEvent'.type = "zoom" =>
          ScreenY(panY', timeZoom', BaseAt(panY, timeZoom, lastEvent'.mouseY))
              = RInt(lastEvent'.mouseY)]_vars

\* a zoom-in at a cursor row away from the pan origin whose factor was
\* clamped to maxZoom from below it
C5_Witness ==
    /\ lastEvent.type = "zoom"
    /\ lastEvent.deltaY < 0
    /\ timeZoom = maxZoom
    /\ panY # RInt(lastEvent.mouseY)
    /\ panY[2] = 99

----------------------------------------------------------------------------
(* Specification of the loads: init from the start of the program, then    *)
(* refreshes, commit reloads, resizes and selector changes in any order    *)

\* outputs of git log: one commit, and a commit on top of it
CommitFeeds ==
    {<<"c1", Bar, Bar, "1", Bar, "m">>,
     <<"c2", Bar, "c1", Bar, "2", Bar, "m", Newline, "c1", Bar, Bar, "1", Bar, "m">>}

\* outputs of git branch
BranchFeeds ==
    {<<"main", Space, "c1">>,
     <<"main", Space, "c2", Newline, "dev", Space, "c1">>}

\* outputs of gh pr list, parsed
PullRequestFeeds ==
    {<<[number |-> 1, title |-> "t", headRefName |-> "dev", headRefOid |-> "c1"]>>}

Results(feeds) == {Failure} \cup {Success(out) : out \in feeds}

\* the functions that fetch commits, branches and pull requests in turn
LoadKinds == {"init", "refresh"}

\* main.js:1142, 1072-1076  init() has run up to its first await; the
\* overlay is as the page declares it
LoadInit ==
    /\ allCommits = <<>>
    /\ allBranches = <<>>
    /\ allPullRequests = <<>>
    /\ hashToCommit = BuildIndex(<<>>)
    /\ NoRenderYet
    /\ uiPc = "init"
    /\ loads = At("init", "getVersion")
    /\ loadingVisible \in BOOLEAN
    /\ WalkIdle

LoadNext ==
    \/ InitVersion
    \/ InitRepoName
    \/ InitConfig
    \/ \E kind \in LoadKinds : \E result \in Results(CommitFeeds) : LoadCommits(kind, result)
    \/ \E kind \in LoadKinds : \E result \in Results(BranchFeeds) : LoadBranches(kind, result)
    \/ \E result \in Results(PullRequestFeeds) : InitPullRequests(result)
    \/ RefreshStart
    \/ RefreshFetched
    \/ \E result \in Results(PullRequestFeeds) : RefreshPullRequests(result)
    \/ ReloadStart
    \/ \E result \in Results(CommitFeeds) : ReloadCommits(result)
    \/ \E i \in ChangedSelectors : \E v \in BranchNames \cup {NoBranch} : SelectChange(i, v)
    \/ Resize

SpecLoad == LoadInit /\ [][LoadNext]_vars

----------------------------------------------------------------------------
(* Specification of the commit feed: a commit reload that is waiting for   *)
(* git log receives every short output                                     *)

\* number of characters of an output of git log
MaxFeedLen == 7

FeedChars == {Bar, Newline, Space, "1"}

FeedTexts == UNION {[1..n -> FeedChars] : n \in 0..MaxFeedLen}

\* init has shown an empty repository and reloadCommits awaits fetchCommits
ParseInit ==
    /\ allCommits = <<>>
    /\ allBranches = <<>>
    /\ allPullRequests = <<>>
    /\ hashToCommit = BuildIndex(<<>>)
    /\ timeZoom = RInt(1)
    /\ selected = populateBranchSelectors(<<>>)
    /\ selectorOptions = {}
    /\ uiPc = "ready"
    /\ loads = At("reload", "commits")
    /\ loadingVisible = TRUE
    /\ layout = LayoutPass(<<>>, <<>>, BuildIndex(<<>>), selected, FirstSubBranchId)
    /\ panX = 0
    /\ panY = RInt(0)
    /\ isDragging = FALSE
    /\ dragStart = <<0, 0>>
    /\ panStart = <<0, RInt(0)>>
    /\ touchStart = <<0, 0>>
    /\ touchPanStart = <<0, RInt(0)>>
    /\ lastEvent = Called
    /\ events = 0
    /\ WalkIdle

\* the collaborator answers the call that waits for it
ParseNext ==
    /\ Awaiting("reload", "commits")
    /\ \E result \in Results(FeedTexts) : ReloadCommits(result)

SpecParse == ParseInit /\ [][ParseNext]_vars

-----------------------------------------------------------------------------
(* Specification of the commit order: a commit reload that is waiting for  *)
(* git log receives lines of four fields in any order of their timestamp   *)
(* fields                                                                  *)

\* number of lines of an output of git log
MaxSortLines == 3

\* the timestamp field of a line: decimal digits, or nothing between the
\* bars (parseInt gives NaN)
TimestampFields == {<<"1">>, <<"2">>, <<"1", "2">>, <<>>}

\* the line of the commit with hash h and timestamp field t, no parents
FeedLine(h, t) == <<h, Bar, Bar>> \o t \o <<Bar, "m">>

\* the outputs of n lines, line i for the commit HashNames[i]
SortFeedsOf(n) ==
    {join([i \in 1..n |-> FeedLine(HashNames[i], ts[i])], Newline) :
        ts \in [1..n -> TimestampFields]}

SortFeeds == UNION {SortFeedsOf(n) : n \in 0..MaxSortLines}

\* the collaborator answers the call that waits for it
SortNext ==
    /\ Awaiting("reload", "commits")
    /\ \E result \in Results(SortFeeds) : ReloadCommits(result)

SpecSort == ParseInit /\ [][SortNext]_vars
----------------------------------------------------------------------------
(* Properties of the loads (SpecLoad) *)

\* C6: at most one data load (init, refresh or commit reload) is suspended
\* at an await at any time, so the awaits of two loads never interleave
C6_SingleLoadInFlight == BagCardinality(loads) <= 1

\* C7: a layout pass runs only on a model whose hash-to-commit index holds
\* exactly the commits of the commit sequence: every step that renders
\* (only renderGraph writes the layout) ends with the index of allCommits
C7_RenderOnConsistentModel ==
    [][layout' # layout => hashToCommit' = BuildIndex(allCommits')]_vars

\* this step resumed a call of kind at the await of what, with a result of
\* success:false
FailedFetch(kind, what) ==
    /\ CopiesIn([kind |-> kind, pc |-> what], loads')
           < CopiesIn([kind |-> kind, pc |-> what], loads)
    /\ lastEvent' = Fetched(what, Failure)

\* C8: a refresh whose fetch of commits, branches or pull requests returns
\* success:false leaves the loaded commits, branches and pull requests as
\* they were
C8_FailedRefreshKeepsModel ==
    [][(\E what \in {"commits", "branches", "prs"} : FailedFetch("refresh", what))
          => UNCHANGED <<allCommits, allBranches, allPullRequests>>]_vars

\* the layout l is the layout pass of the model and selection given
RenderedOn(l, commits, branches, idx, sel) ==
    l = LayoutPass(commits, branches, idx, sel, FirstSubBranchId)

Rendered == RenderedOn(layout, allCommits, allBranches, hashToCommit, selected)

\* C9: when a fetch of init or refresh returns success:false, the
\* collection it fills is empty and the call goes on as after a success:
\* after the commits to the await of the branches, after the branches to
\* the await of the pull requests, and after the pull requests to its end,
\* where renderGraph has run on the current model and the overlay is hidden
C9_FailedFetchYieldsEmptyAndCompletes ==
    [][\A kind \in LoadKinds :
          /\ FailedFetch(kind, "commits")
                => allCommits' = <<>> /\ Awaiting(kind, "branches")'
          /\ FailedFetch(kind, "branches")
                => allBranches' = <<>> /\ Awaiting(kind, "prs")'
          /\ FailedFetch(kind, "prs")
                => /\ allPullRequests' = <<>>
                   /\ RenderedOn(layout', allCommits', allBranches', hashToCommit', selected')
                   /\ ~loadingVisible'
                   /\ BagCardinality(loads') = BagCardinality(loads) - 1]_vars

\* a load whose three fetches failed has finished: nothing is loaded, the
\* empty graph is rendered and the overlay is hidden
C9_Witness ==
    /\ uiPc = "ready"
    /\ loads = EmptyBag
    /\ lastEvent = Fetched("prs", Failure)
    /\ allCommits = <<>>
    /\ allBranches = <<>>
    /\ allPullRequests = <<>>
    /\ Rendered
    /\ DOMAIN positions = {}
    /\ ~loadingVisible

----------------------------------------------------------------------------
(* Properties of the commit feed (SpecParse) *)

\* the successful commit fetch that the last step received
FeedParsed ==
    /\ lastEvent.type = "fetch"
    /\ lastEvent.what = "commits"
    /\ lastEvent.result.success

\* the lines of the output the last step received
FeedLines == split(trim(lastEvent.result.output), Newline)

BarCount(line) == Cardinality({i \in DOMAIN line : line[i] = Bar})

\* position of the k-th '|' of a line
BarAt(line, k) ==
    CHOOSE i \in DOMAIN line :
        /\ line[i] = Bar
        /\ Cardinality({j \in 1..(i - 1) : line[j] = Bar}) = k - 1

\* lines with at least 4 '|'-separated fields, in feed order
CommitLines == SelectSeq(FeedLines, LAMBDA line : BarCount(line) >= 3)

\* the commit a line with at least 4 fields stands for: hash up to the first
\* '|', parents up to the second, timestamp up to the third, and all the
\* rest, further '|' included, as the message
CommitOfLine(line) ==
    [hash |-> Str(SubSeq(line, 1, BarAt(line, 1) - 1)),
     parents |-> parentsOf(SubSeq(line, BarAt(line, 1) + 1, BarAt(line, 2) - 1)),
     timestamp |-> parseInt(SubSeq(line, BarAt(line, 2) + 1, BarAt(line, 3) - 1)),
     message |-> Str(SubSeq(line, BarAt(line, 3) + 1, Len(line)))]

\* C10: for every commit feed, the parsed commits are exactly the commits of
\* the lines that have at least 4 '|'-separated fields, one commit per such
\* line (message with every further '|' kept), and nothing else; lines with
\* fewer fields produce no commit and no error
C10_OneCommitPerWellFormedLine ==
    FeedParsed =>
        /\ Len(allCommits) = Len(CommitLines)
        /\ \E p \in Permutations(DOMAIN CommitLines) :
              \A i \in DOMAIN CommitLines : allCommits[i] = CommitOfLine(CommitLines[p[i]])

\* a feed of a line with 5 fields and a line with 2 has been parsed into one
\* commit whose message holds the fourth '|'
C10_Witness ==
    /\ FeedParsed
    /\ Len(FeedLines) = 2
    /\ BarCount(FeedLines[1]) = 4
    /\ BarCount(FeedLines[2]) = 1
    /\ Len(allCommits) = 1
    /\ allCommits[1].message = Bar
----------------------------------------------------------------------------
(* Properties of lineages, ownership and placement (SpecLayout) *)

\* the loaded commit with hash h
CommitOf(h) == allCommits[CHOOSE i \in DOMAIN allCommits : allCommits[i].hash = h]

\* the hashes reached from the hashes in front over at most n parent links
RECURSIVE AncestorsWithin(_, _)
AncestorsWithin(front, n) ==
    IF n = 0 THEN front
    ELSE AncestorsWithin(
             front \cup UNION {Range(CommitOf(h).parents) : h \in front \cap LoadedHashes},
             n - 1)

\* the selected branch names in selection order
SelectedNames == getSelectedBranches(selected)

\* the tip of the branch name
TipOf(name) == allBranches[CHOOSE k \in DOMAIN allBranches : allBranches[k].name = name].hash

\* a fully loaded linear history, all of it reachable from the tip of the
\* one selected branch
LinearHistorySelected ==
    /\ uiPc = "ready"
    /\ Len(SelectedNames) = 1
    /\ \A i \in DOMAIN allCommits :
          /\ Len(allCommits[i].parents) <= 1
          /\ Range(allCommits[i].parents) \subseteq LoadedHashes
    /\ AncestorsWithin({TipOf(SelectedNames[1])}, Len(allCommits)) = LoadedHashes

\* number of loaded commits that are newer than the commit in array place i
NewerThan(i) ==
    Cardinality({j \in DOMAIN allCommits : allCommits[j].timestamp > allCommits[i].timestamp})

\* C11: for a fully loaded linear history with its branch selected as the
\* only lineage, the lineage is the whole commit set, there is no sub-branch,
\* and every commit is in column 0 at offset 0 in the row of its position in
\* newest-first order
C11_LinearHistoryOneColumn ==
    LinearHistorySelected =>
        /\ Len(branchLineages) = 1
        /\ Range(branchLineages[1].lineage) = LoadedHashes
        /\ branchLineages[1].subBranches = <<>>
        /\ \A i \in DOMAIN allCommits :
              /\ positions[allCommits[i].hash].col = 0
              /\ positions[allCommits[i].hash].subOffset = 0
              /\ positions[allCommits[i].hash].row = NewerThan(i)

\* a rendered linear history of at least three commits
C11_Witness ==
    /\ LinearHistorySelected
    /\ Len(allCommits) >= 3
    /\ positions[TipOf(SelectedNames[1])].row = 0

\* the hashes of the lineage selected at place b
LineageSet(b) == Range(branchLineages[b].lineage)

\* the loaded commits that are on no selected lineage
OffLineage == LoadedHashes \ UNION {LineageSet(b) : b \in DOMAIN branchLineages}

\* the members of S that have h as a parent
ChildrenIn(S, h) == {c \in S : h \in Range(CommitOf(c).parents)}

\* with one lineage selected, the commits off the lineage are one chain that
\* forks from lineage commit b and is merged as a non-first parent of
\* lineage commit m, with no other link to it
ForkMergeChain(b, m) ==
    /\ uiPc = "ready"
    /\ Len(SelectedNames) = 1
    /\ OffLineage # {}
    /\ {b, m} \subseteq LineageSet(1)
    /\ m \in LoadedHashes
    /\ \A c \in OffLineage :
          /\ Len(CommitOf(c).parents) = 1
          /\ CommitOf(c).parents[1] \in OffLineage \cup {b}
          /\ Cardinality(ChildrenIn(OffLineage, c)) <= 1
    /\ Cardinality({c \in OffLineage : CommitOf(c).parents[1] = b}) = 1
    /\ \A h \in LoadedHashes \ OffLineage :
          \A i \in DOMAIN CommitOf(h).parents :
              CommitOf(h).parents[i] \in OffLineage =>
                  /\ h = m
                  /\ i >= 2
                  /\ ChildrenIn(OffLineage, CommitOf(h).parents[i]) = {}
    /\ \E i \in DOMAIN CommitOf(m).parents : CommitOf(m).parents[i] \in OffLineage

\* C12: for a single lineage and a chain of commits that forks from lineage
\* commit b and is merged back as a non-first parent of lineage commit m,
\* findSubBranches returns exactly one sub-branch: its commits are the
\* chain, its mergeCommit is m and its branchPoint is b
C12_ForkMergeChainIsOneSubBranch ==
    \A b, m \in LoadedHashes \cup {Dangling} :
        ForkMergeChain(b, m) =>
            /\ Len(branchLineages[1].subBranches) = 1
            /\ Range(branchLineages[1].subBranches[1].commits) = OffLineage
            /\ branchLineages[1].subBranches[1].mergeCommit = m
            /\ branchLineages[1].subBranches[1].branchPoint = b

\* a rendered fork-and-merge: the chain is a sub-branch at offset 1
C12_Witness ==
    /\ \E b, m \in LoadedHashes : ForkMergeChain(b, m)
    /\ \E c \in OffLineage : positions[c].isSubBranch /\ positions[c].subOffset = 1

\* a and b are joined by a parent link, in either direction
Linked(a, b) ==
    \/ a \in LoadedHashes /\ b \in Range(CommitOf(a).parents)
    \/ b \in LoadedHashes /\ a \in Range(CommitOf(b).parents)

RECURSIVE Grow(_, _)
\* S with what n rounds of parent and child links add to it off the lineages
Grow(S, n) ==
    IF n = 0 THEN S
    ELSE Grow(S \cup {c \in OffLineage : \E h \in S : Linked(h, c)}, n - 1)

\* the connected components of the commits that are on no selected lineage
Components == {Grow({h}, Len(allCommits)) : h \in OffLineage}

\* every parent of a member of K is in K or on the lineage at place li
ValidFor(K, li) ==
    \A c \in K : Range(CommitOf(c).parents) \subseteq K \cup LineageSet(li)

\* a commit of the lineage at place j has a member of K as a non-first parent
MergedOn(K, j) ==
    \E h \in LineageSet(j) \cap LoadedHashes :
        \E i \in 2..Len(CommitOf(h).parents) : CommitOf(h).parents[i] \in K

\* K is the commit set of a sub-branch returned for the lineage at place li
ReturnedFor(K, li) ==
    \E k \in DOMAIN branchLineages[li].subBranches :
        Range(branchLineages[li].subBranches[k].commits) = K

MergedOnOther(K, li) == \E j \in DOMAIN branchLineages : j # li /\ MergedOn(K, j)

\* C13: ownership rule of findSubBranches for lineage L: a valid component
\* with a merge commit on L is returned for L; a valid component with no
\* merge commit on L but one on a different active lineage is not returned
\* for L; a valid component merged into no active lineage is returned for L
C13_OwnershipRule ==
    uiPc = "ready" =>
        \A li \in DOMAIN branchLineages : \A K \in Components :
            ValidFor(K, li) =>
                /\ MergedOn(K, li) => ReturnedFor(K, li)
                /\ (~MergedOn(K, li) /\ MergedOnOther(K, li)) => ~ReturnedFor(K, li)
                /\ (~MergedOn(K, li) /\ ~MergedOnOther(K, li)) => ReturnedFor(K, li)

\* two lineages are shown and a component that is valid for the first and
\* merged into the second only is left out of the first's result
C13_Witness ==
    /\ uiPc = "ready"
    /\ Len(branchLineages) = 2
    /\ \E K \in Components :
          /\ ValidFor(K, 1) /\ ~MergedOn(K, 1) /\ MergedOn(K, 2)
          /\ ~ReturnedFor(K, 1)

\* K is left out of the result of the lineage at place li because it is
\* merged into a different selected lineage
LeftOutFor(K, li) ==
    /\ ValidFor(K, li)
    /\ ~MergedOn(K, li)
    /\ MergedOnOther(K, li)

\* the column of the commits that belong to no selected branch
OtherColumn == Len(branchLineages)

\* C14: a component left out of lineage L's result because it merges into a
\* different active lineage M is a sub-branch of M's result in the same
\* layout pass, and is never dropped to the Other column
C14_LeftOutIsPickedUp ==
    uiPc = "ready" =>
        \A li \in DOMAIN branchLineages : \A K \in Components :
            LeftOutFor(K, li) =>
                /\ \E j \in DOMAIN branchLineages :
                      j # li /\ MergedOn(K, j) /\ ReturnedFor(K, j)
                /\ \A c \in K : positions[c].col # OtherColumn

\* the places of the selected lineages for which K is a valid sub-branch
ValidPlaces(K) == {li \in DOMAIN branchLineages : ValidFor(K, li)}

\* K has a merge commit on no selected lineage
Unmerged(K) == \A j \in DOMAIN branchLineages : ~MergedOn(K, j)

\* C15: a component that merges into no active lineage and is a valid
\* sub-branch for more than one selected lineage is assigned to the lineage
\* that comes first in selection order: its commits are placed in that
\* first lineage's column
C15_FirstLineageOwnsUnmerged ==
    uiPc = "ready" =>
        \A K \in Components :
            (Unmerged(K) /\ Cardinality(ValidPlaces(K)) >= 2) =>
                \A c \in K :
                    positions[c].col + 1 =
                        CHOOSE li \in ValidPlaces(K) : \A j \in ValidPlaces(K) : li <= j

\* C16: within one layout pass no commit hash is a member of sub-branches
\* returned for two different selected lineages
C16_NoCommitInTwoResults ==
    uiPc = "ready" =>
        \A i, j \in DOMAIN branchLineages :
            i # j =>
                \A a \in DOMAIN branchLineages[i].subBranches :
                    \A b \in DOMAIN branchLineages[j].subBranches :
                        Range(branchLineages[i].subBranches[a].commits)
                            \cap Range(branchLineages[j].subBranches[b].commits) = {}

\* the places of the selected lineages that h is a member of
LineagePlaces(h) == {b \in DOMAIN branchLineages : h \in LineageSet(b)}

\* the places of the selected lineages that returned a sub-branch with h
SubBranchPlaces(h) ==
    {b \in DOMAIN branchLineages :
        \E k \in DOMAIN branchLineages[b].subBranches :
            h \in Range(branchLineages[b].subBranches[k].commits)}

LineagePlacement(h) ==
    /\ positions[h].col + 1 \in LineagePlaces(h)
    /\ positions[h].subOffset = 0
    /\ ~positions[h].isSubBranch

SubBranchPlacement(h) ==
    /\ positions[h].col + 1 \in SubBranchPlaces(h)
    /\ positions[h].subOffset >= 1
    /\ positions[h].isSubBranch

OtherPlacement(h) ==
    /\ positions[h].col = OtherColumn
    /\ positions[h].subOffset = 0
    /\ ~positions[h].isSubBranch

\* C17: after every layout pass each loaded commit has exactly one
\* placement: a lineage member has a column below the lineage count, offset
\* 0 and no sub-branch flag; a sub-branch member has a column below the
\* lineage count, an offset of at least 1 and the flag; any other commit is
\* in the Other column (column = lineage count) at offset 0 without the flag
C17_PlacementTaxonomy ==
    uiPc = "ready" =>
        /\ DOMAIN positions = LoadedHashes
        /\ \A h \in LoadedHashes :
              /\ positions[h].col \in 0..OtherColumn
              /\ IF LineagePlaces(h) # {} THEN LineagePlacement(h)
                 ELSE IF SubBranchPlaces(h) # {} THEN SubBranchPlacement(h)
                 ELSE OtherPlacement(h)

\* one pass placed a lineage member, a sub-branch member and an Other commit
C17_Witness ==
    /\ uiPc = "ready"
    /\ OtherColumn >= 1
    /\ \E h \in LoadedHashes : LineagePlaces(h) # {} /\ LineagePlacement(h)
    /\ \E h \in LoadedHashes :
          LineagePlaces(h) = {} /\ SubBranchPlaces(h) # {} /\ SubBranchPlacement(h)
    /\ \E h \in LoadedHashes :
          LineagePlaces(h) = {} /\ SubBranchPlaces(h) = {} /\ OtherPlacement(h)

-----------------------------------------------------------------------------
(* Edge drawing of renderGraph, main.js:665-712 *)

\* main.js:666-672  the (child, parent) pairs that get a path: the child
\* and the parent both have a position
DrawnEdges(commits, pos) ==
    {e \in (DOMAIN pos) \X (DOMAIN pos) :
        \E i \in DOMAIN commits :
            commits[i].hash = e[1] /\ e[2] \in Range(commits[i].parents)}

\* main.js:673
isOtherEdge(childPos, parentPos, n) == childPos.col = n \/ parentPos.col = n

\* main.js:692
isSubBranchEdge(childPos, parentPos) == childPos.isSubBranch \/ parentPos.isSubBranch

\* main.js:693
isMainlineEdge(childPos, parentPos, n) ==
    /\ ~isSubBranchEdge(childPos, parentPos)
    /\ ~isOtherEdge(childPos, parentPos, n)
    /\ childPos.col < n

\* C18: an edge (child, parent) is classified as mainline only if both
\* endpoints are lineage members without the sub-branch flag and both are
\* placed in the same lineage column; an edge between commits of two
\* different lineage columns is not mainline
C18_MainlineEdgeStaysInOneColumn ==
    uiPc = "ready" =>
        \A e \in DrawnEdges(allCommits, positions) :
            isMainlineEdge(positions[e[1]], positions[e[2]], OtherColumn) =>
                /\ LineagePlaces(e[1]) # {} /\ ~positions[e[1]].isSubBranch
                /\ LineagePlaces(e[2]) # {} /\ ~positions[e[2]].isSubBranch
                /\ positions[e[1]].col = positions[e[2]].col

-----------------------------------------------------------------------------
(* Properties of the zoom factor and of the zoom gesture (SpecZoom) *)

ZoomInRange == ~RLess(timeZoom, minZoom) /\ ~RLess(maxZoom, timeZoom)

\* C19: after any sequence of wheel, mouse and touch events and re-renders
\* timeZoom stays within [0.1, 5], and a wheel event without Ctrl/Cmd never
\* changes timeZoom
C19_ZoomStaysInRange ==
    /\ []ZoomInRange
    /\ [][lastEvent'.type = "wheel" => timeZoom' = timeZoom]_vars

\* a plain wheel event after zoom gestures took the factor away from 1 and
\* from both ends of the range
C19_Witness ==
    /\ lastEvent.type = "wheel"
    /\ events >= 2
    /\ timeZoom \notin ZoomStarts
    /\ ZoomInRange

\* C20: a zoom gesture (Ctrl/Cmd + wheel) leaves panX and the stored x and
\* y of every commit placement unchanged; of the view state it changes only
\* timeZoom and panY
C20_ZoomKeepsHorizontal ==
    [][(lastEvent'.type = "zoom" /\ events' = events + 1) =>
          /\ panX' = panX
          /\ DOMAIN layout'.positions = DOMAIN layout.positions
          /\ \A h \in DOMAIN layout.positions :
                /\ layout'.positions[h].x = layout.positions[h].x
                /\ layout'.positions[h].y = layout.positions[h].y
          /\ UNCHANGED <<isDragging, dragStart, panStart, touchStart, touchPanStart>>]_vars

\* a zoom gesture made after the view was panned sideways, which moved the
\* vertical offset and the factor
C20_Witness ==
    /\ lastEvent.type = "zoom"
    /\ panX # 0
    /\ panY # RInt(0)
    /\ timeZoom \notin ZoomStarts

-----------------------------------------------------------------------------
(* Properties of mouse dragging and touch panning (SpecZoom) *)

\* the step is the handling of one event of the given type
Handles(type) == lastEvent'.type = type /\ events' = events + 1

\* the pan offset p moved by the displacement from pointer position a to b
Displaced(p, a, b) == <<p[1] + (b[1] - a[1]), RAdd(p[2], RInt(b[2] - a[2]))>>

DragUnchanged == UNCHANGED <<panX, panY, isDragging, dragStart, panStart>>

\* C21: a primary-button mousedown enters Dragging and captures the pointer
\* position and the current pan; a mousemove while Dragging sets pan to the
\* captured pan plus (pointer - captured pointer); a primary-button mouseup
\* or a mouseleave returns to Idle; a mousemove while Idle and a mousedown
\* with another button leave pan and the drag state unchanged
C21_DragStateMachine ==
    [][/\ (Handles("mousedown") /\ lastEvent'.button = 0) =>
              /\ isDragging'
              /\ dragStart' = lastEvent'.pt
              /\ panStart' = <<panX, panY>>
              /\ UNCHANGED <<panX, panY>>
       /\ (Handles("mousedown") /\ lastEvent'.button # 0) => DragUnchanged
       /\ (Handles("mousemove") /\ isDragging) =>
              /\ <<panX', panY'>> = Displaced(panStart, dragStart, lastEvent'.pt)
              /\ UNCHANGED <<isDragging, dragStart, panStart>>
       /\ (Handles("mousemove") /\ ~isDragging) => DragUnchanged
       /\ (Handles("mouseup") /\ lastEvent'.button = 0) => ~isDragging'
       /\ Handles("mouseleave") => ~isDragging'
      ]_vars

\* the third event of a session was a move of an active drag away from the
\* captured pointer: the view is at the captured pan plus the displacement
C21_Witness ==
    /\ lastEvent.type = "mousemove"
    /\ isDragging
    /\ dragStart # lastEvent.pt
    /\ <<panX, panY>> = Displaced(panStart, dragStart, lastEvent.pt)
    /\ <<panX, panY>> # panStart
    /\ events >= 3

\* no single-touch start began a gesture before this event: the handlers
\* were just installed by a render, or the last touch start had two fingers
NoSingleTouchGesture ==
    \/ lastEvent.type = "render"
    \/ lastEvent = NoEvent
    \/ lastEvent.type = "touchstart" /\ lastEvent.touches = 2

\* C22: a single-touch move changes pan only while a gesture started by a
\* single-touch start is active, and then sets pan to the pan captured at
\* that start plus the displacement from it; a single-touch move not
\* preceded by a single-touch start (after a two-finger start, or with no
\* start since the last render) does not change pan
C22_TouchMirrorsDrag ==
    [][/\ (/\ Handles("touchmove") /\ lastEvent'.touches = 1
           /\ lastEvent.type = "touchstart" /\ lastEvent.touches = 1) =>
              <<panX', panY'>> = Displaced(<<panX, panY>>, lastEvent.pt, lastEvent'.pt)
       /\ (Handles("touchmove") /\ lastEvent'.touches = 1 /\ NoSingleTouchGesture) =>
              UNCHANGED <<panX, panY>>
      ]_vars

-----------------------------------------------------------------------------
(* Properties of the row order (SpecSort) *)

\* the place in the feed of the line of the commit with hash h
FeedPlace(h) ==
    CHOOSE k \in DOMAIN CommitLines : CommitOfLine(CommitLines[k]).hash = h

\* C23: the row of every commit is its index in the loaded sequence sorted
\* by descending timestamp: rows are exactly 0..n-1, for two loaded commits
\* a and b with integer timestamps row(a) < row(b) implies
\* timestamp(a) >= timestamp(b), and commits with equal timestamps keep
\* their feed order
C23_RowsFollowTimestamps ==
    FeedParsed =>
        /\ \A i \in DOMAIN allCommits : positions[allCommits[i].hash].row = i - 1
        /\ \A a, b \in LoadedHashes :
              (/\ CommitOf(a).timestamp # NaN
               /\ CommitOf(b).timestamp # NaN
               /\ positions[a].row < positions[b].row) =>
                  /\ CommitOf(a).timestamp >= CommitOf(b).timestamp
                  /\ CommitOf(a).timestamp = CommitOf(b).timestamp =>
                        FeedPlace(a) < FeedPlace(b)

-----------------------------------------------------------------------------
(* Properties of spans, offsets and columns (SpecLayout) *)

\* the sub-branches of the lineage at place b in the order they were
\* processed, each with its span and its offset
ProcessedOf(b) == branchLineages[b].subBranches

\* the row of the first member of sb that the classifier's loop over the
\* commits meets: the classifier returns the sub-branches in this order
FirstMemberRow(sb) ==
    CHOOSE r \in {positions[h].row : h \in Range(sb.commits)} :
        \A h \in Range(sb.commits) : r <= positions[h].row

\* the offsets that the sub-branches processed before the k-th hold on a
\* row of the k-th's span (rows from the span start up to, not including,
\* the span end, main.js:475)
ReservedBefore(P, k) ==
    {P[j].offset : j \in {i \in 1..(k - 1) : SpanRows(P[i]) \cap SpanRows(P[k]) # {}}}

OldestMembers(sb) ==
    {h \in Range(sb.commits) :
        \A g \in Range(sb.commits) : CommitOf(h).timestamp <= CommitOf(g).timestamp}

NewestMembers(sb) ==
    {h \in Range(sb.commits) :
        \A g \in Range(sb.commits) : CommitOf(h).timestamp >= CommitOf(g).timestamp}

\* C25: the start row of a sub-branch whose branch point is null or not
\* among the loaded commits is the row of its oldest member (lowest
\* timestamp), and the end row of an unmerged sub-branch is the row of its
\* newest member (highest timestamp, lowest row index)
C25_FallbackRowsFromMembers ==
    uiPc = "ready" =>
        \A q \in PlacedSubBranches :
            /\ (SubBranchAt(q).branchPoint \notin LoadedHashes) =>
                  \E h \in OldestMembers(SubBranchAt(q)) :
                      SubBranchAt(q).startRow = positions[h].row
            /\ (SubBranchAt(q).mergeCommit = NoHash) =>
                  \E h \in NewestMembers(SubBranchAt(q)) :
                      SubBranchAt(q).endRow = positions[h].row

\* the loaded commits of the lineage at place b that have a member of K as
\* a non-first parent
MergingInto(K, b) ==
    {h \in LineageSet(b) \cap LoadedHashes :
        \E i \in 2..Len(CommitOf(h).parents) : CommitOf(h).parents[i] \in K}

\* the number of first-parent steps from the tip of the lineage at place b
\* to its member h
StepsFromTip(b, h) ==
    (CHOOSE i \in DOMAIN branchLineages[b].lineage : branchLineages[b].lineage[i] = h) - 1

\* C26: the mergeCommit of a returned sub-branch is null exactly when no
\* loaded commit of the lineage has a non-first parent inside the
\* component; otherwise it is a lineage commit with at least 2 parents one
\* of whose non-first parents is in the component, and of several such
\* commits it is the one closest to the tip in lineage walk order
C26_MergeCommitClosestToTip ==
    uiPc = "ready" =>
        \A q \in PlacedSubBranches :
            LET K == Range(SubBranchAt(q).commits)
                m == SubBranchAt(q).mergeCommit
            IN /\ m = NoHash <=> MergingInto(K, q[1]) = {}
               /\ m # NoHash =>
                     /\ m \in MergingInto(K, q[1])
                     /\ Len(CommitOf(m).parents) >= 2
                     /\ \A h \in MergingInto(K, q[1]) :
                           StepsFromTip(q[1], m) <= StepsFromTip(q[1], h)

\* a sub-branch that two commits of its lineage merge: its mergeCommit is
\* the tip of the lineage
C26_Witness ==
    /\ uiPc = "ready"
    /\ \E q \in PlacedSubBranches :
          /\ Cardinality(MergingInto(Range(SubBranchAt(q).commits), q[1])) = 2
          /\ StepsFromTip(q[1], SubBranchAt(q).mergeCommit) = 0

\* the base X of column i (0-based; column OtherColumn is the Other column)
BaseX(i) == columnStartX[i + 1]

\* C27: the column base X positions strictly increase with the column
\* index and the Other column comes after every lineage column; every
\* commit placed in column i, at any offset, has x >= the base X of column
\* i and x < the base X of column i+1
C27_ColumnsDoNotOverlap ==
    uiPc = "ready" =>
        /\ DOMAIN columnStartX = 1..(OtherColumn + 1)
        /\ \A i, j \in 0..OtherColumn : i < j => BaseX(i) < BaseX(j)
        /\ \A h \in LoadedHashes :
              /\ positions[h].x >= BaseX(positions[h].col)
              /\ positions[h].col < OtherColumn =>
                    positions[h].x < BaseX(positions[h].col + 1)

\* two lineage columns and the Other column; the first lineage column holds
\* a commit at offset 2 and is wider than the second
C27_Witness ==
    /\ uiPc = "ready"
    /\ OtherColumn = 2
    /\ \E h \in LoadedHashes :
          /\ positions[h].col = 0
          /\ positions[h].subOffset = 2
          /\ positions[h].x > BaseX(0)
    /\ BaseX(1) - BaseX(0) > BaseX(2) - BaseX(1)

-----------------------------------------------------------------------------
(* Properties of the branch selectors (SpecLoad) *)

\* the step is the end of a refresh: the call that awaited the pull
\* requests reads the selections, repopulates the selectors and restores
RefreshEnds ==
    /\ uiPc = "ready"
    /\ Awaiting("refresh", "prs")
    /\ lastEvent'.type = "fetch"
    /\ lastEvent'.what = "prs"
    /\ loads' = loads (-) At("refresh", "prs")

\* C28: a refresh preserves the current branch selections: a selector whose
\* value before the refresh is a branch that still exists after it, or is
\* the empty choice, has the same value after the refresh
C28_RefreshKeepsSelections ==
    [][RefreshEnds =>
          \A i \in 1..3 :
              (\/ selected[i] = NoBranch
               \/ \E k \in DOMAIN allBranches' : allBranches'[k].name = selected[i])
                  => selected'[i] = selected[i]]_vars

-----------------------------------------------------------------------------
(* Properties of shared history and of edges (SpecLayout) *)

\* the last place in selection order of a lineage that contains h
LastLineagePlace(h) ==
    CHOOSE b \in LineagePlaces(h) : \A c \in LineagePlaces(h) : c <= b

\* C29: when selected lineages share commits, each shared commit is placed
\* in the column of the last selected lineage that contains it, with offset
\* 0; an earlier lineage's column then holds only commits that no later
\* selected lineage contains
C29_SharedCommitsInLastColumn ==
    uiPc = "ready" =>
        /\ \A h \in LoadedHashes :
              LineagePlaces(h) # {} =>
                  /\ positions[h].col = LastLineagePlace(h) - 1
                  /\ positions[h].subOffset = 0
        /\ \A h \in LoadedHashes : \A b \in DOMAIN branchLineages :
              positions[h].col < b - 1 => h \notin LineageSet(b)

\* two different lineages that share a loaded commit are shown; the shared
\* commit is in the second column and the first column holds the rest of
\* the first lineage
C29_Witness ==
    /\ uiPc = "ready"
    /\ Len(branchLineages) = 2
    /\ LineageSet(1) # LineageSet(2)
    /\ \E h \in LoadedHashes : LineagePlaces(h) = {1, 2} /\ positions[h].col = 1
    /\ \E h \in LoadedHashes : LineagePlaces(h) = {1} /\ positions[h].col = 0

\* the edge e = <<child, parent>> in the three classes of the drawing code
EdgeIsOther(e) == isOtherEdge(positions[e[1]], positions[e[2]], OtherColumn)
EdgeIsSubBranch(e) == isSubBranchEdge(positions[e[1]], positions[e[2]])
EdgeIsMainline(e) == isMainlineEdge(positions[e[1]], positions[e[2]], OtherColumn)

\* g is in a lineage, or in a returned sub-branch together with h
LineageOrSameSubBranch(h, g) ==
    \/ LineagePlaces(g) # {}
    \/ \E q \in PlacedSubBranches : {h, g} \subseteq Range(SubBranchAt(q).commits)

\* C30: when the hash-to-commit index matches the loaded commits, every
\* drawn edge is in exactly one of the classes mainline, sub-branch and
\* other: no edge joins a commit flagged as sub-branch member and a commit
\* in the Other column, because every loaded parent and every child of a
\* sub-branch member is in the same sub-branch or in a lineage
C30_EdgeClassesExclusive ==
    (uiPc = "ready" /\ hashToCommit = BuildIndex(allCommits)) =>
        \A e \in DrawnEdges(allCommits, positions) :
            /\ EdgeIsOther(e) \/ EdgeIsSubBranch(e) \/ EdgeIsMainline(e)
            /\ ~(EdgeIsOther(e) /\ EdgeIsSubBranch(e))
            /\ ~(EdgeIsOther(e) /\ EdgeIsMainline(e))
            /\ ~(EdgeIsSubBranch(e) /\ EdgeIsMainline(e))
            /\ positions[e[1]].isSubBranch => LineageOrSameSubBranch(e[1], e[2])
            /\ positions[e[2]].isSubBranch => LineageOrSameSubBranch(e[2], e[1])

\* a rendered graph with a mainline edge, a sub-branch edge into a lineage
\* commit and a sub-branch edge out of one
C30_Witness ==
    /\ uiPc = "ready"
    /\ hashToCommit = BuildIndex(allCommits)
    /\ \E e \in DrawnEdges(allCommits, positions) : EdgeIsMainline(e)
    /\ \E e \in DrawnEdges(allCommits, positions) :
          positions[e[1]].isSubBranch /\ LineagePlaces(e[2]) # {}
    /\ \E e \in DrawnEdges(allCommits, positions) :
          positions[e[2]].isSubBranch /\ LineagePlaces(e[1]) # {}
====
